---- MODULE Spec2Model ----
(***************************************************************************)
(* A state-machine model of the Tolkien knowledge-graph builder:           *)
(*   - the build orchestrator (src/builder.py) driven by one build session *)
(*     of the web server (src/server/app.py, build_start.run_build);       *)
(*   - the external link resolver (src/linking.py);                        *)
(*   - the tabular enrichment pass (src/enrichment.py, enrich_with_csv);   *)
(*   - the statement generator (src/rdf_generator.py, RDFGenerator);       *)
(*   - the wiki client's request loop and image lookup (src/wiki.py);      *)
(*   - the card and multilingual passes (src/enrichment.py).               *)
(* Each part has its own specification over the shared variables; the      *)
(* variables of the other parts stay at their initial values.  Further     *)
(* specifications run two build sessions, two resolver threads, several    *)
(* runs of the program, one search, one discovery with its answers on      *)
(* record, one call of the title filter, one image field, and one          *)
(* template with a date-like field.                                        *)
(***************************************************************************)
EXTENDS Integers, Sequences, FiniteSets, TLC

VARIABLES
    \* ---- src/server/app.py
    build_cancel_flags,      \* _build_cancel_flags: session id -> bool (a dict)
    build_progress_queues,   \* _build_progress_queues: session id -> queue
    \* ---- src/builder.py, one KGBuilder per session
    thread,                  \* run_build's position and locals, per session
    builder,                 \* KGBuilder fields: graph, _processed_pages, stats
    wiki_calls,              \* calls the session's WikiClient has issued (history)
    cancelled_at,            \* where the build stood when build_cancel ran (history)
    \* ---- src/linking.py
    link_cache,              \* _link_cache: name -> link record (a dict)
    last_request_time,       \* _last_request_time
    now,                     \* time.time(), in ticks
    caller,                  \* per thread: position and locals of a resolver call
    requests,                \* outbound requests issued so far (history)
    calls_started,           \* resolver calls started so far (history)
    calls_done,              \* name -> calls completed since the cache was last
                             \* emptied (history)
    earlier_runs,            \* names resolved in earlier runs of the program
                             \* (history)
    filter,                  \* one call of _is_tolkien_related: its arguments
                             \* and its answer
    search_answers,          \* what the search engine answered to the variants
                             \* of one search_wikipedia call, and what the
                             \* lookup and the direct search that follow them
                             \* answered (history)
    \* ---- src/enrichment.py
    csv_graph,               \* the graph handed to enrich_with_csv
    csv_rows,                \* the rows load_csv_characters returned
    csv_pc,                  \* position of the pass
    csv_before,              \* the graph as it was before the pass (history)
    \* ---- src/rdf_generator.py, one RDFGenerator
    generator,               \* RDFGenerator fields: graph, _external_links_cache
    gen_call,                \* position and locals of a process() call
    gen_returned,            \* the last process() call and the graph it returned
    gen_calls,               \* process() calls started so far (history)
    \* ---- src/wiki.py, one WikiClient
    wiki_request,            \* position and locals of a _request call, with the
                             \* answers and the pauses of the call (history)
    \* ---- src/enrichment.py, enrich_with_metw
    metw,                    \* the graph and the cards handed to the pass, its
                             \* position, the graph before it and the entities
                             \* it ran find_matching_card for (history)
    \* ---- src/enrichment.py, enrich_multilingual
    multilingual,            \* the graph and max_entities handed to the pass, its
                             \* position and locals, the graph before it and
                             \* the lookups it made (history)
    \* ---- src/rdf_generator.py, process_image
    image,                   \* one process_image call: the image field, the
                             \* position, the answer of the lookup and the
                             \* image statements added
    \* ---- src/rdf_generator.py, detect_type and the date fields
    dated                    \* one process() call on a template with one
                             \* date-like field: the template's name, the
                             \* field, the detected type, the routine and the
                             \* date statements added

buildVars == <<build_cancel_flags, build_progress_queues, thread, builder,
              wiki_calls, cancelled_at>>
linkVars  == <<link_cache, last_request_time, now, caller, requests,
              calls_started, calls_done>>
csvVars   == <<csv_graph, csv_rows, csv_pc, csv_before>>
genVars   == <<generator, gen_call, gen_returned, gen_calls>>
otherVars == <<wiki_request, metw, multilingual, image, dated>>
vars      == <<buildVars, linkVars, csvVars, genVars, earlier_runs, filter, search_answers,
               otherVars>>

(***************************************************************************)
(* Bounds of the model.                                                    *)
(***************************************************************************)
MaxCats  == 2        \* categories selected for one build
MaxPages == 2        \* limit: pages a category fetch may return

Titles   == {"t1", "t2"}     \* page titles the wiki may list
Sessions == {"s1"}           \* session ids build_start may hand out

RECURSIVE Fact(_)
Fact(n) == IF n <= 1 THEN 1 ELSE n * Fact(n - 1)

\* Progress values are percentages; the model counts them in units of
\* 1/PScale percent so that 60/len(categories) and i/len(pages) stay integral.
PScale == Fact(MaxCats) * Fact(MaxPages)

\* All sequences over S of length at most n.
RECURSIVE SeqsUpTo(_, _)
SeqsUpTo(S, n) ==
    IF n = 0 THEN {<<>>}
    ELSE LET shorter == SeqsUpTo(S, n - 1)
         IN  shorter \cup {Append(q, x) : q \in {r \in shorter : Len(r) = n - 1}, x \in S}

(***************************************************************************)
(* src/rdf_generator.py: the statements of one page.  A statement is a     *)
(* triple of tagged terms.                                                 *)
(***************************************************************************)
Res(title)  == <<"resource", title>>
Page(title) == <<"page", title>>
Url(title)  == <<"url", title>>

\* RDFGenerator.add_base
AddBase(title) ==
    { <<Res(title),  <<"p", "isPrimaryTopicOf">>, Page(title)>>,
      <<Page(title), <<"p", "primaryTopic">>,     Res(title)>>,
      <<Page(title), <<"p", "type">>,             <<"class", "Document">>>>,
      <<Res(title),  <<"p", "label">>,            <<"literal", title>>>>,
      <<Page(title), <<"p", "url">>,              Url(title)>>,
      <<Res(title),  <<"p", "seeAlso">>,          Url(title)>> }

\* RDFGenerator.process: reset(), then the statements of this title only.
\* The type- and field-specific statements depend on the template's content,
\* which the orchestrator never looks at; the base statements always exist.
GeneratorProcess(title) == AddBase(title)

\* create_ontology(): the ontology's statements, disjoint from any page's.
OntologyGraph == { <<<<"class", "Character">>, <<"p", "type">>, <<"class", "Class">>>> }

\* enrich_all: statements an enrichment pass may add.
EnrichGraph == { <<<<"card", "c">>, <<"p", "type">>, <<"class", "METWCard">>>> }

(***************************************************************************)
(* src/builder.py                                                          *)
(***************************************************************************)
\* KGBuilder.__init__: self.stats
InitStats ==
    [processed |-> 0, success |-> 0, no_infobox |-> 0, errors |-> 0,
     triples |-> 0, external_links_found |-> 0, duplicates_skipped |-> 0]

\* KGBuilder.__init__
NewBuilder == [graph |-> {}, processed_pages |-> {}, stats |-> InitStats]

\* What the wiki answers to a page fetch, and what the parser finds in it.
\*   request_failed : _request returned None, or the answer holds no "parse"
\*   empty_text     : the page's wikitext is the empty string
\*   malformed      : the answer's shape is wrong, get_page_wikitext raises
\*   no_template    : wikitext without a recognizable template
\*   infobox        : wikitext with a recognizable template
PageResponses == {"request_failed", "empty_text", "malformed", "no_template", "infobox"}

\* KGBuilder.process_page: the status it returns for a response.
ProcessPageStatus(resp) ==
    CASE resp = "request_failed" -> "no_page"
      [] resp = "empty_text"     -> "no_page"
      [] resp = "malformed"      -> "error"
      [] resp = "no_template"    -> "no_infobox"
      [] resp = "infobox"        -> "success"

\* KGBuilder.process_page: the graph it returns (None is the empty set).
ProcessPageGraph(title, resp) ==
    IF resp = "infobox" THEN GeneratorProcess(title) ELSE {}

\* process_category, line 129: title in self._processed_pages
\* (variant: the check is missing)
IsDuplicateNever(bld, title) == FALSE
IsDuplicate(bld, title) == title \in bld.processed_pages

\* process_category, lines 130-134: the duplicate branch.
SkipDuplicate(bld) ==
    [bld EXCEPT !.stats.duplicates_skipped = @ + 1]

\* process_category, lines 149-168: record the outcome of process_page.
\* (variant: the no-infobox branch forgets to mark the page processed)
RecordOutcomeNoMark(bld, title, g, status) ==
    IF status = "success" /\ g # {}
    THEN [bld EXCEPT !.stats.success = @ + 1,
                     !.stats.triples = @ + Cardinality(g),
                     !.graph = @ \cup g,
                     !.processed_pages = @ \cup {title}]
    ELSE IF status = "no_infobox"
    THEN [bld EXCEPT !.stats.no_infobox = @ + 1]
    ELSE [bld EXCEPT !.stats.errors = @ + 1]
\* (variant: the error branch marks the page processed)
RecordOutcomeMarksErrors(bld, title, g, status) ==
    IF status = "success" /\ g # {}
    THEN [bld EXCEPT !.stats.success = @ + 1,
                     !.stats.triples = @ + Cardinality(g),
                     !.graph = @ \cup g,
                     !.processed_pages = @ \cup {title}]
    ELSE IF status = "no_infobox"
    THEN [bld EXCEPT !.stats.no_infobox = @ + 1,
                     !.processed_pages = @ \cup {title}]
    ELSE [bld EXCEPT !.stats.errors = @ + 1,
                     !.processed_pages = @ \cup {title}]
\* (variant: the success branch forgets to mark the page processed)
RecordOutcomeSuccessNoMark(bld, title, g, status) ==
    IF status = "success" /\ g # {}
    THEN [bld EXCEPT !.stats.success = @ + 1,
                     !.stats.triples = @ + Cardinality(g),
                     !.graph = @ \cup g]
    ELSE IF status = "no_infobox"
    THEN [bld EXCEPT !.stats.no_infobox = @ + 1,
                     !.processed_pages = @ \cup {title}]
    ELSE [bld EXCEPT !.stats.errors = @ + 1]
\* (variant: the success branch assigns the page's graph instead of merging it)
RecordOutcomeReplacesGraph(bld, title, g, status) ==
    IF status = "success" /\ g # {}
    THEN [bld EXCEPT !.stats.success = @ + 1,
                     !.stats.triples = @ + Cardinality(g),
                     !.graph = g,
                     !.processed_pages = @ \cup {title}]
    ELSE IF status = "no_infobox"
    THEN [bld EXCEPT !.stats.no_infobox = @ + 1,
                     !.processed_pages = @ \cup {title}]
    ELSE [bld EXCEPT !.stats.errors = @ + 1]
RecordOutcome(bld, title, g, status) ==
    IF status = "success" /\ g # {}
    THEN [bld EXCEPT !.stats.success = @ + 1,
                     !.stats.triples = @ + Cardinality(g),
                     !.graph = @ \cup g,
                     !.processed_pages = @ \cup {title}]
    ELSE IF status = "no_infobox"
    THEN [bld EXCEPT !.stats.no_infobox = @ + 1,
                     !.processed_pages = @ \cup {title}]
    ELSE [bld EXCEPT !.stats.errors = @ + 1]

\* build, line 191: progress_per_cat = 60 / len(categories)
ProgressPerCat(n) == IF n > 0 THEN (60 * PScale) \div n ELSE 0

\* build, line 197: base_progress = (idx - 1) * progress_per_cat
BaseProgress(idx, n) == (idx - 1) * ProgressPerCat(n)

\* process_category, line 126: page_progress
PageProgress(idx, n, i, len) ==
    IF len > 0 THEN BaseProgress(idx, n) + (i * ProgressPerCat(n)) \div len
               ELSE BaseProgress(idx, n)

(***************************************************************************)
(* src/server/app.py: build_start, run_build, build_cancel                 *)
(***************************************************************************)
Event(step, progress) == [step |-> step, progress |-> progress]
EndMarker == Event("None", 0)          \* q.put(None)

\* run_build.check_cancelled: _build_cancel_flags.get(session_id, False)
\* (variant: the flag is never seen)
CheckCancelledNever(flags, s) == FALSE
\* (variant: one flag for all sessions)
CheckCancelledAny(flags, s) == \E t \in DOMAIN flags : flags[t]
CheckCancelled(flags, s) == IF s \in DOMAIN flags THEN flags[s] ELSE FALSE

NoThread ==
    [pc |-> "unborn", cats |-> <<>>, idx |-> 0, pages |-> <<>>, i |-> 0,
     title |-> "-", wikitext |-> "-",
     final |-> "-", summary |-> FALSE]

NoCalls == [category |-> {}, page |-> 0]

NotCancelled == [pc |-> "-", idx |-> 0, builder |-> NewBuilder, calls |-> NoCalls]

\* The except/finally clauses of run_build: one terminal event, then None.
\* (variant: `except Exception` comes first and takes every exception)
TerminateAsError(q, step, progress) == q \o <<Event("error", 0), EndMarker>>
Terminate(q, step, progress) == q \o <<Event(step, progress), EndMarker>>

\* A thread that stops with the terminal event `step`.
Stopped(th, step) == [th EXCEPT !.pc = "done", !.final = step]

\* build_start: a POST /build/start with n selected categories creates the
\* session's queue and flag and starts the run_build thread.
BuildStart(s) ==
    /\ thread[s].pc = "unborn"
    /\ s \notin DOMAIN build_cancel_flags
    /\ \E n \in 1..MaxCats :
         thread' = [thread EXCEPT ![s] = [@ EXCEPT !.pc = "run",
                                                   !.cats = [k \in 1..n |-> k]]]
    /\ build_progress_queues' = build_progress_queues @@ (s :> <<>>)
    /\ build_cancel_flags' = build_cancel_flags @@ (s :> FALSE)
    /\ UNCHANGED <<builder, wiki_calls, cancelled_at>>

\* build_cancel: POST /build/cancel/<session_id>
BuildCancel(s) ==
    /\ s \in DOMAIN build_cancel_flags
    /\ ~build_cancel_flags[s]          \* a second request changes nothing
    /\ build_cancel_flags' = [build_cancel_flags EXCEPT ![s] = TRUE]
    /\ cancelled_at' = [cancelled_at EXCEPT ![s] =
                           [pc |-> thread[s].pc, idx |-> thread[s].idx,
                            builder |-> builder[s], calls |-> wiki_calls[s]]]
    /\ UNCHANGED <<build_progress_queues, thread, builder, wiki_calls>>

\* The thread is interrupted: InterruptedError reaches run_build, which puts
\* 'cancelled' and then None.
Interrupt(s) ==
    /\ thread' = [thread EXCEPT ![s] = Stopped(@, "cancelled")]
    /\ build_progress_queues' =
           [build_progress_queues EXCEPT ![s] = Terminate(@, "cancelled", 0)]
    /\ UNCHANGED <<build_cancel_flags, builder, wiki_calls, cancelled_at>>

\* Any other exception reaches run_build, which puts 'error' and then None.
Fail(s) ==
    /\ thread' = [thread EXCEPT ![s] = Stopped(@, "error")]
    /\ build_progress_queues' =
           [build_progress_queues EXCEPT ![s] = Terminate(@, "error", 0)]
    /\ UNCHANGED <<build_cancel_flags, builder, cancelled_at>>

\* progress_callback: q.put of one progress event.
Report(s, step, progress) ==
    build_progress_queues' =
        [build_progress_queues EXCEPT ![s] = Append(@, Event(step, progress))]

\* The thread after the pages of category idx: the next category, or the
\* end of build().
AfterCategory(th) ==
    IF th.idx < Len(th.cats)
    THEN [th EXCEPT !.pc = "cat_report", !.idx = @ + 1, !.pages = <<>>, !.i = 0]
    ELSE [th EXCEPT !.pc = "post_build", !.pages = <<>>, !.i = 0, !.summary = TRUE]

\* The thread after page i: the next page, or the end of the category.  The
\* locals of the iteration are dead from here on.
AfterPage(th) ==
    LET t == [th EXCEPT !.title = "-", !.wikitext = "-"]
    IN  IF t.i < Len(t.pages)
        THEN [t EXCEPT !.pc = "page_check", !.i = @ + 1]
        ELSE AfterCategory(t)

\* run_build, lines 889-890, and build, lines 187-191: the builder is
\* constructed and the start of the build is reported.
BuildBegin(s) ==
    /\ thread[s].pc = "run"
    /\ IF CheckCancelled(build_cancel_flags, s)
       THEN Interrupt(s)
       ELSE /\ Report(s, "start", 0)
            /\ thread' = [thread EXCEPT ![s] = [@ EXCEPT !.pc = "cat_report", !.idx = 1]]
            /\ UNCHANGED <<build_cancel_flags, builder, wiki_calls, cancelled_at>>

\* process_category, line 111: _report_progress("fetch", ...)
CatReport(s) ==
    /\ thread[s].pc = "cat_report"
    /\ IF CheckCancelled(build_cancel_flags, s)
       THEN Interrupt(s)
       ELSE /\ Report(s, "fetch", BaseProgress(thread[s].idx, Len(thread[s].cats)))
            /\ thread' = [thread EXCEPT ![s] = [@ EXCEPT !.pc = "cat_check"]]
            /\ UNCHANGED <<build_cancel_flags, builder, wiki_calls, cancelled_at>>

\* process_category, line 115: self._check_cancelled()
CatCheck(s) ==
    /\ thread[s].pc = "cat_check"
    /\ IF CheckCancelled(build_cancel_flags, s)
       THEN Interrupt(s)
       ELSE /\ thread' = [thread EXCEPT ![s] = [@ EXCEPT !.pc = "cat_fetch"]]
            /\ UNCHANGED <<build_cancel_flags, build_progress_queues, builder, wiki_calls, cancelled_at>>

\* WikiClient.get_category_members: what it returns for the wiki's answers.
\* Every failed request and every answer without "query" ends the loop with
\* the members gathered so far; the result is cut to `limit` titles.
CategoryResults == SeqsUpTo(Titles, MaxPages)

\* process_category, line 117: the category fetch returns a list of titles.
CatFetch(s) ==
    /\ thread[s].pc = "cat_fetch"
    /\ \E pages \in CategoryResults :
         thread' = [thread EXCEPT ![s] =
                      IF pages = <<>>
                      THEN AfterCategory(@)
                      ELSE [@ EXCEPT !.pc = "page_check", !.pages = pages, !.i = 1]]
    /\ wiki_calls' = [wiki_calls EXCEPT ![s].category = @ \cup {thread[s].idx}]
    /\ UNCHANGED <<build_cancel_flags, build_progress_queues, builder, cancelled_at>>

\* process_category, line 117: the wiki answers with JSON of another shape
\* (a "query" that is no object, a member without "title"); lines 214-216 of
\* wiki.py raise, and nothing between there and run_build catches it.
CatFetchRaises(s) ==
    /\ thread[s].pc = "cat_fetch"
    /\ wiki_calls' = [wiki_calls EXCEPT ![s].category = @ \cup {thread[s].idx}]
    /\ Fail(s)

\* process_category, lines 123-137: the cancellation check, the duplicate
\* check and the processed counter of page i.
PageCheck(s) ==
    /\ thread[s].pc = "page_check"
    /\ LET th    == thread[s]
           title == th.pages[th.i]
       IN  IF CheckCancelled(build_cancel_flags, s)
           THEN Interrupt(s)
           ELSE /\ IF IsDuplicate(builder[s], title)
                   THEN /\ builder' = [builder EXCEPT ![s] = SkipDuplicate(@)]
                        /\ thread' = [thread EXCEPT ![s] = AfterPage(@)]
                   ELSE /\ builder' = [builder EXCEPT ![s].stats.processed = @ + 1]
                        /\ thread' = [thread EXCEPT ![s] =
                                         [@ EXCEPT !.pc = "page_report", !.title = title]]
                /\ UNCHANGED <<build_cancel_flags, build_progress_queues, wiki_calls, cancelled_at>>

\* process_category, line 140: _report_progress("process", ...)
PageReport(s) ==
    /\ thread[s].pc = "page_report"
    /\ LET th == thread[s]
       IN  IF CheckCancelled(build_cancel_flags, s)
           THEN Interrupt(s)
           ELSE /\ Report(s, "process",
                          PageProgress(th.idx, Len(th.cats), th.i, Len(th.pages)))
                /\ thread' = [thread EXCEPT ![s] = [@ EXCEPT !.pc = "page_fetch"]]
                /\ UNCHANGED <<build_cancel_flags, builder, wiki_calls, cancelled_at>>

\* process_page, line 82: the page fetch (a suspension point).
PageFetch(s) ==
    /\ thread[s].pc = "page_fetch"
    /\ \E resp \in PageResponses :
         thread' = [thread EXCEPT ![s] = [@ EXCEPT !.pc = "page_record", !.wikitext = resp]]
    /\ wiki_calls' = [wiki_calls EXCEPT ![s].page = @ + 1]
    /\ UNCHANGED <<build_cancel_flags, build_progress_queues, builder, cancelled_at>>

\* process_page, lines 83-92, and process_category, lines 149-170: the status
\* of the fetched page and the record of the outcome (the sleep that follows
\* changes no state).
PageRecord(s) ==
    /\ thread[s].pc = "page_record"
    /\ LET th     == thread[s]
           status == ProcessPageStatus(th.wikitext)
           g      == ProcessPageGraph(th.title, th.wikitext)
       IN  /\ builder' = [builder EXCEPT ![s] = RecordOutcome(@, th.title, g, status)]
           /\ thread' = [thread EXCEPT ![s] = AfterPage(@)]
    /\ UNCHANGED <<build_cancel_flags, build_progress_queues, wiki_calls, cancelled_at>>

\* run_build, lines 892-895, and KGBuilder.add_ontology: the flag is read at
\* line 892 and again by the progress callback, with nothing in between.
AddOntology(s) ==
    /\ thread[s].pc = "post_build"
    /\ IF CheckCancelled(build_cancel_flags, s)
       THEN Interrupt(s)
       ELSE /\ Report(s, "ontology", 65 * PScale)
            /\ builder' = [builder EXCEPT ![s].graph = @ \cup OntologyGraph]
            /\ thread' = [thread EXCEPT ![s] = [@ EXCEPT !.pc = "pre_enrich"]]
            /\ UNCHANGED <<build_cancel_flags, wiki_calls, cancelled_at>>

\* run_build, lines 897-907, and KGBuilder.enrich with the session's options
\* (they are read here only).  enrich_all adds statements only when a pass
\* is enabled.
Enrich(s) ==
    /\ thread[s].pc = "pre_enrich"
    /\ IF CheckCancelled(build_cancel_flags, s)
       THEN Interrupt(s)
       ELSE /\ \E enable_metw \in BOOLEAN, enable_multilingual \in BOOLEAN :
                 /\ build_progress_queues' =
                       [build_progress_queues EXCEPT ![s] =
                           @ \o (IF enable_metw THEN <<Event("metw", 70 * PScale)>> ELSE <<>>)
                             \o (IF enable_multilingual
                                 THEN <<Event("multilingual", 75 * PScale)>> ELSE <<>>)]
                 /\ \E added \in SUBSET EnrichGraph :
                       /\ (added # {}) => (enable_metw \/ enable_multilingual)
                       /\ builder' = [builder EXCEPT ![s].graph = @ \cup added]
            /\ thread' = [thread EXCEPT ![s] = [@ EXCEPT !.pc = "pre_save"]]
            /\ UNCHANGED <<build_cancel_flags, wiki_calls, cancelled_at>>

\* run_build, lines 909-949: save, load, the 'complete' event and None; a
\* file that cannot be written raises and ends the session with 'error'.
Save(s) ==
    /\ thread[s].pc = "pre_save"
    /\ IF CheckCancelled(build_cancel_flags, s)
       THEN Interrupt(s)
       ELSE /\ \E written \in BOOLEAN :
                 LET final == IF written THEN "complete" ELSE "error"
                     prog  == IF written THEN 100 * PScale ELSE 0
                 IN  /\ build_progress_queues' =
                           [build_progress_queues EXCEPT ![s] =
                               Terminate(Append(@, Event("save", 90 * PScale)), final, prog)]
                     /\ thread' = [thread EXCEPT ![s] = Stopped(@, final)]
            /\ UNCHANGED <<build_cancel_flags, builder, wiki_calls, cancelled_at>>

(***************************************************************************)
(* src/linking.py: the external link resolver.  Time is counted in ticks   *)
(* of half a second.                                                       *)
(***************************************************************************)
REQUEST_DELAY == 1       \* REQUEST_DELAY = 0.5, in ticks
NumVariants   == 5       \* len(search_queries) in search_wikipedia

MaxCalls   == 2          \* resolver calls started in one run
MaxTime    == 3          \* the clock stops there
MaxResults == 2          \* candidates one search answer may list

Callers    == {"c1"}                              \* threads calling the resolver
Names      == {"Gandalf", "Frodo"}                \* entity names looked up
WikiTitles == {"Gandalf (wizard)", "Gandalf", "Mordor"}   \* titles a search may list

UpperCase == "ABCDEFGHIJKLMNOPQRSTUVWXYZ"
LowerCase == "abcdefghijklmnopqrstuvwxyz"
Digits    == "0123456789"

\* ch in s, for a one-character string ch
InStr(ch, s) == \E i \in 1..Len(s) : SubSeq(s, i, i) = ch

\* sub in s
Contains(s, sub) ==
    \E i \in 0..(Len(s) - Len(sub)) : SubSeq(s, i + 1, i + Len(sub)) = sub

\* s.startswith(prefix)
StartsWith(s, prefix) ==
    Len(prefix) <= Len(s) /\ SubSeq(s, 1, Len(prefix)) = prefix

LowerChar(ch) ==
    IF InStr(ch, UpperCase)
    THEN LET i == CHOOSE j \in 1..Len(UpperCase) : SubSeq(UpperCase, j, j) = ch
         IN  SubSeq(LowerCase, i, i)
    ELSE ch

\* str.lower()
RECURSIVE Lower(_)
Lower(s) ==
    IF s = "" THEN ""
    ELSE LowerChar(SubSeq(s, 1, 1)) \o Lower(SubSeq(s, 2, Len(s)))

\* str.split()[0] for a string that holds a word: the first word
RECURSIVE FirstWord(_)
FirstWord(s) ==
    IF s = "" THEN ""
    ELSE IF SubSeq(s, 1, 1) = " " THEN FirstWord(SubSeq(s, 2, Len(s)))
    ELSE IF Contains(s, " ")
         THEN LET i == CHOOSE j \in 1..Len(s) :
                          /\ SubSeq(s, j, j) = " "
                          /\ ~Contains(SubSeq(s, 1, j - 1), " ")
              IN  SubSeq(s, 1, i - 1)
         ELSE s

\* str.replace(" ", "_")
RECURSIVE ReplaceSpaces(_)
ReplaceSpaces(s) ==
    IF s = "" THEN ""
    ELSE (IF SubSeq(s, 1, 1) = " " THEN "_" ELSE SubSeq(s, 1, 1))
         \o ReplaceSpaces(SubSeq(s, 2, Len(s)))

\* The percent code of the characters the titles can hold.
PercentCode(ch) ==
    CASE ch = " " -> "%20"
      [] ch = "(" -> "%28"
      [] ch = ")" -> "%29"
      [] ch = "," -> "%2C"
      [] ch = "'" -> "%27"
      [] ch = "/" -> "%2F"
      [] OTHER    -> "%3F"

\* urllib.parse.quote(s, safe): letters, digits and "_.-~" are never quoted.
RECURSIVE Quote(_, _)
Quote(s, safe) ==
    IF s = "" THEN ""
    ELSE LET ch == SubSeq(s, 1, 1)
         IN  (IF InStr(ch, UpperCase \o LowerCase \o Digits \o "_.-~" \o safe)
              THEN ch ELSE PercentCode(ch))
             \o Quote(SubSeq(s, 2, Len(s)), safe)

\* _is_tolkien_related, line 99
TolkienIndicators ==
    {"middle-earth", "tolkien", "lord of the rings", "hobbit", "silmarillion",
     "arda", "gondor", "rohan", "mordor", "(middle-earth)", "(tolkien)"}

\* (variant: the title's relation to the name is not looked at)
IsTolkienRelatedAnyName(wiki_title, original_name) ==
    LET wiki_lower == Lower(wiki_title)
        name_lower == Lower(original_name)
    IN  \/ \E indicator \in TolkienIndicators : Contains(wiki_lower, indicator)
        \/ name_lower = wiki_lower
        \/ Contains(wiki_lower, name_lower \o " (")
\* _is_tolkien_related(wiki_title, original_name), for a name that holds a word
IsTolkienRelated(wiki_title, original_name) ==
    LET wiki_lower == Lower(wiki_title)
        name_lower == Lower(original_name)
    IN  /\ \/ Contains(wiki_lower, name_lower)
           \/ StartsWith(wiki_lower, FirstWord(name_lower))
        /\ \/ \E indicator \in TolkienIndicators : Contains(wiki_lower, indicator)
           \/ name_lower = wiki_lower
           \/ Contains(wiki_lower, name_lower \o " (")

\* No call of the filter has been made.
NoFilter == [title |-> "", name |-> "", result |-> "-"]

\* Arguments of the filter: titles a search may list and names looked up.
FilterTitles ==
    {"Gandalf", "gandalf", "Gandalf (wizard)", "Gandalf in Middle-earth", "Gandalfr",
     "Middle-earth", "Mordor", "The Hobbit", "Frodo (Middle-earth)", "Frodo Baggins",
     "Frodo (disambiguation)", "List of Frodo Baggins (character) appearances"}
FilterNames == {"Gandalf", "GANDALF", "Frodo Baggins", "Frodo", "Mordor"}

\* One call _is_tolkien_related(wiki_title, original_name) and its answer.
FilterApply ==
    /\ filter.result = "-"
    /\ filter' = [filter EXCEPT !.result =
                     IF IsTolkienRelated(filter.title, filter.name)
                     THEN "accepted" ELSE "rejected"]

\* get_dbpedia_uri
GetDbpediaUri(wikipedia_title) ==
    "http://dbpedia.org/resource/" \o Quote(ReplaceSpaces(wikipedia_title), "_(),-")

\* get_yago_uri, for a title that is not empty
GetYagoUri(wikipedia_title) ==
    "http://yago-knowledge.org/resource/" \o Quote(ReplaceSpaces(wikipedia_title), "_-")

\* discover_external_links, lines 235-243: the links derived from the title.
DerivedLinks(wiki_title) ==
    ("wikipedia" :> "https://en.wikipedia.org/wiki/"
                       \o Quote(ReplaceSpaces(wiki_title), "/"))
    @@ ("dbpedia" :> GetDbpediaUri(wiki_title))
    @@ ("yago" :> GetYagoUri(wiki_title))

\* The derived links of each title (computed once).
LinksOfTitle == [t \in WikiTitles |-> DerivedLinks(t)]

\* discover_external_links, lines 247-248 and 252-253: the wikidata link.
WithWikidata(links, wikidata_id) ==
    IF wikidata_id # ""
    THEN ("wikidata" :> "http://www.wikidata.org/entity/" \o wikidata_id) @@ links
    ELSE links

\* What the network answers to one outbound request: ok is FALSE for a
\* network error, an HTTP error status or a body of the wrong shape.
Failure == [ok |-> FALSE, results |-> <<>>]

\* Answers to one query variant of search_wikipedia.
SearchAnswers ==
    {Failure} \cup {[ok |-> TRUE, results |-> r] : r \in SeqsUpTo(WikiTitles, MaxResults)}

\* Answers to get_wikidata_id_from_wikipedia: the page's wikibase_item or none.
LookupAnswers ==
    {Failure} \cup {[ok |-> TRUE, results |-> r] : r \in {<<>>, <<"Q177499">>}}

\* Candidates of search_wikidata_direct.
WikidataCandidates ==
    { [id |-> "Q177499", description |-> "Fictional wizard"],
      [id |-> "Q74287", description |-> "novel by J. R. R. Tolkien"],
      [id |-> "Q46", description |-> "continent"] }

\* Answers to search_wikidata_direct.
DirectAnswers ==
    {Failure} \cup {[ok |-> TRUE, results |-> r] : r \in SeqsUpTo(WikidataCandidates, MaxResults)}

\* Answers to verify_dbpedia_exists: the "boolean" of the body.
VerifyAnswers ==
    {Failure} \cup {[ok |-> TRUE, results |-> r] : r \in {<<TRUE>>, <<FALSE>>}}

\* The titles _is_tolkien_related accepts for each name (computed once).
AcceptedTitles == [n \in Names |-> {t \in WikiTitles : IsTolkienRelated(t, n)}]

\* search_wikipedia, lines 75-81: the first candidate the filter accepts,
\* "" when there is none.
\* (variant: the last candidate the filter accepts)
LastRelated(results, query) ==
    IF \E i \in DOMAIN results : results[i] \in AcceptedTitles[query]
    THEN results[CHOOSE i \in DOMAIN results :
                    /\ results[i] \in AcceptedTitles[query]
                    /\ \A j \in (i + 1)..Len(results) : results[j] \notin AcceptedTitles[query]]
    ELSE ""
FirstRelated(results, query) ==
    IF \E i \in DOMAIN results : results[i] \in AcceptedTitles[query]
    THEN results[CHOOSE i \in DOMAIN results :
                    /\ results[i] \in AcceptedTitles[query]
                    /\ \A j \in 1..(i - 1) : results[j] \notin AcceptedTitles[query]]
    ELSE ""

\* search_wikidata_direct, line 181
DescriptionKeywords == {"tolkien", "middle-earth", "lord of the rings", "fictional"}

IsFictional(candidate) ==
    \E kw \in DescriptionKeywords : Contains(Lower(candidate.description), kw)

\* The candidates line 181 accepts (computed once).
FictionalCandidates == {cand \in WikidataCandidates : IsFictional(cand)}

\* search_wikidata_direct, lines 176-182: the id of the first candidate whose
\* description holds a keyword, "" when there is none.
\* (variant: the id of the last such candidate)
LastFictional(results) ==
    IF \E i \in DOMAIN results : results[i] \in FictionalCandidates
    THEN results[CHOOSE i \in DOMAIN results :
                    /\ results[i] \in FictionalCandidates
                    /\ \A j \in (i + 1)..Len(results) : results[j] \notin FictionalCandidates].id
    ELSE ""
FirstFictional(results) ==
    IF \E i \in DOMAIN results : results[i] \in FictionalCandidates
    THEN results[CHOOSE i \in DOMAIN results :
                    /\ results[i] \in FictionalCandidates
                    /\ \A j \in 1..(i - 1) : results[j] \notin FictionalCandidates].id
    ELSE ""

\* The except clauses of search_wikipedia (83-85), get_wikidata_id_from_wikipedia
\* (146-147), search_wikidata_direct (184-185) and verify_dbpedia_exists
\* (321-324) catch every Exception: a failed call never leaves its function.
\* (variant: a failed call is not caught)
EscapesUncaught(answer) == ~answer.ok
Escapes(answer) == FALSE

\* discover_external_links, line 225: entity_name in _link_cache
\* (variant: the cache is never consulted)
InCacheNever(cache, name) == FALSE
\* (variant: a record that lacks a kind does not count as cached)
InCacheComplete(cache, name) ==
    /\ name \in DOMAIN cache
    /\ {"wikipedia", "dbpedia", "yago", "wikidata"} \subseteq DOMAIN cache[name]
InCache(cache, name) == name \in DOMAIN cache

\* discover_external_links, line 256: _link_cache[entity_name] = links
\* (variant: only a record that holds a link is stored)
CacheStoreNonEmpty(cache, name, links) ==
    IF links # <<>> THEN (name :> links) @@ cache ELSE cache
\* (variant: the cache is rebuilt with the one record)
CacheStoreAlone(cache, name, links) == (name :> links)
CacheStore(cache, name, links) == (name :> links) @@ cache

\* A thread that is in no resolver call.  After a call, call and name are
\* those of the call that has returned, result is what it returned, and
\* failed holds the sub-steps of it in which an outbound call failed.
NoCall ==
    [pc |-> "idle", call |-> 0, name |-> "", step |-> "-", wake |-> 0, k |-> 0,
     links |-> <<>>, failed |-> {}, result |-> <<>>, verified |-> "-"]

\* One outbound request as the instrumentation sees it.
Request(cl, at) ==
    [call |-> cl.call, name |-> cl.name, step |-> cl.step, k |-> cl.k, at |-> at]

\* requests.get(...): the request leaves now.
Send(c) == requests' = Append(requests, Request(caller[c], now))

\* The call after the answer to its request: a failed one is remembered.
Answered(cl, answer) ==
    IF answer.ok THEN cl ELSE [cl EXCEPT !.failed = @ \cup {cl.step}]

\* The call of thread c goes on with _rate_limit() and then sub-step `step`.
ThenRateLimit(cl, step) == [cl EXCEPT !.pc = "rate_limit", !.step = step, !.k = 0]

\* A thread whose call has returned `result`.
Returned(cl, result) ==
    [NoCall EXCEPT !.call = cl.call, !.name = cl.name, !.failed = cl.failed,
                   !.result = result]

\* A failure that is not caught ends the call without a result.
Raised(cl) == [cl EXCEPT !.pc = "raised"]

\* discover_external_links, lines 225-231: a cache hit returns the cached
\* record; a miss starts search_wikipedia.
Discover(c, name) ==
    /\ caller[c].pc = "idle"
    /\ calls_started < MaxCalls
    /\ calls_started' = calls_started + 1
    /\ LET cl == [NoCall EXCEPT !.call = calls_started + 1, !.name = name]
       IN  IF InCache(link_cache, name)
           THEN /\ caller' = [caller EXCEPT ![c] = Returned(cl, link_cache[name])]
                /\ calls_done' = [calls_done EXCEPT ![name] = @ + 1]
           ELSE /\ caller' = [caller EXCEPT ![c] = ThenRateLimit(cl, "search")]
                /\ UNCHANGED calls_done
    /\ UNCHANGED <<link_cache, last_request_time, now, requests>>

\* discover_external_links, lines 256-263: after the answer to the last
\* request, the record is cached and returned.
Complete(c, answer, links) ==
    /\ link_cache' = CacheStore(link_cache, caller[c].name, links)
    /\ calls_done' = [calls_done EXCEPT ![caller[c].name] = @ + 1]
    /\ caller' = [caller EXCEPT ![c] = Returned(Answered(@, answer), links)]

\* The sub-step that called _rate_limit() goes on.
AfterRateLimit(cl) ==
    [cl EXCEPT !.pc = cl.step, !.wake = 0, !.k = IF cl.step = "search" THEN 1 ELSE 0]

\* _rate_limit: the elapsed time is read (line 34); when the interval has
\* passed, the time of the request is noted at once (line 37); otherwise the
\* thread sleeps for what is missing (line 36).
RateLimit(c) ==
    /\ caller[c].pc = "rate_limit"
    /\ LET elapsed == now - last_request_time
       IN  IF elapsed < REQUEST_DELAY
           THEN /\ caller' = [caller EXCEPT ![c] =
                                 [@ EXCEPT !.pc = "sleep",
                                           !.wake = now + (REQUEST_DELAY - elapsed)]]
                /\ UNCHANGED last_request_time
           ELSE /\ caller' = [caller EXCEPT ![c] = AfterRateLimit(@)]
                /\ last_request_time' = now
    /\ UNCHANGED <<link_cache, now, requests, calls_started, calls_done>>

\* _rate_limit, lines 36-37: time.sleep returns and the time of the request
\* is noted.
Wake(c) ==
    /\ caller[c].pc = "sleep"
    /\ now >= caller[c].wake
    /\ caller' = [caller EXCEPT ![c] = AfterRateLimit(@)]
    /\ last_request_time' = now
    /\ UNCHANGED <<link_cache, now, requests, calls_started, calls_done>>

\* search_wikipedia, lines 56-87: query variant k is sent and answered.  An
\* accepted title ends the search (lines 233-246 follow); otherwise the next
\* variant is sent, and after the last one the direct search follows (251).
SearchVariantAnswered(c, answer) ==
    /\ caller[c].pc = "search"
    /\ LET cl         == Answered(caller[c], answer)
           wiki_title == IF answer.ok THEN FirstRelated(answer.results, cl.name) ELSE ""
       IN  /\ Send(c)
           /\ caller' = [caller EXCEPT ![c] =
                 IF Escapes(answer) THEN Raised(cl)
                 ELSE IF wiki_title # ""
                 THEN ThenRateLimit([cl EXCEPT !.links = LinksOfTitle[wiki_title]], "lookup")
                 ELSE IF cl.k < NumVariants
                 THEN [cl EXCEPT !.k = @ + 1]
                 ELSE ThenRateLimit(cl, "direct")]
    /\ UNCHANGED <<link_cache, last_request_time, now, calls_started, calls_done>>

\* The same, whatever the engine answers.
SearchVariant(c) == \E answer \in SearchAnswers : SearchVariantAnswered(c, answer)

\* get_wikidata_id_from_wikipedia, lines 123-149, then lines 247-263.
LookupAnswered(c, answer) ==
    /\ caller[c].pc = "lookup"
    /\ LET wikidata_id == IF answer.ok /\ answer.results # <<>>
                          THEN answer.results[1] ELSE ""
       IN  /\ Send(c)
           /\ IF Escapes(answer)
              THEN /\ caller' = [caller EXCEPT ![c] = Raised(@)]
                   /\ UNCHANGED <<link_cache, calls_done>>
              ELSE Complete(c, answer, WithWikidata(caller[c].links, wikidata_id))
    /\ UNCHANGED <<last_request_time, now, calls_started>>

\* The same, whatever the endpoint answers.
Lookup(c) == \E answer \in LookupAnswers : LookupAnswered(c, answer)

\* search_wikidata_direct, lines 158-187, then lines 252-263.
DirectAnswered(c, answer) ==
    /\ caller[c].pc = "direct"
    /\ LET wikidata_id == IF answer.ok THEN FirstFictional(answer.results) ELSE ""
       IN  /\ Send(c)
           /\ IF Escapes(answer)
              THEN /\ caller' = [caller EXCEPT ![c] = Raised(@)]
                   /\ UNCHANGED <<link_cache, calls_done>>
              ELSE Complete(c, answer, WithWikidata(caller[c].links, wikidata_id))
    /\ UNCHANGED <<last_request_time, now, calls_started>>

\* The same, whatever the endpoint answers.
Direct(c) == \E answer \in DirectAnswers : DirectAnswered(c, answer)

\* verify_dbpedia_exists is called: _rate_limit() comes first.
VerifyStart(c) ==
    /\ caller[c].pc = "idle"
    /\ calls_started < MaxCalls
    /\ calls_started' = calls_started + 1
    /\ caller' = [caller EXCEPT ![c] =
                     ThenRateLimit([NoCall EXCEPT !.call = calls_started + 1], "verify")]
    /\ UNCHANGED <<link_cache, last_request_time, now, requests, calls_done>>

\* verify_dbpedia_exists, lines 305-324: an endpoint that fails counts as True.
Verify(c) ==
    /\ caller[c].pc = "verify"
    /\ \E answer \in VerifyAnswers :
         /\ Send(c)
         /\ caller' = [caller EXCEPT ![c] =
               IF Escapes(answer) THEN Raised(@)
               ELSE [NoCall EXCEPT !.call = caller[c].call, !.verified =
                        IF answer.ok /\ ~answer.results[1] THEN "False" ELSE "True"]]
    /\ UNCHANGED <<link_cache, last_request_time, now, calls_started, calls_done>>

\* clear_cache
ClearCache ==
    /\ link_cache # <<>>
    /\ link_cache' = <<>>
    /\ calls_done' = [n \in Names |-> 0]
    /\ UNCHANGED <<last_request_time, now, caller, requests, calls_started>>

\* The program ends and is started again: linking.py is imported anew, which
\* sets _link_cache = {} (line 24) and _last_request_time = 0 (line 28).
\* Nothing is read from LINKING_CACHE_FILE, and nothing was written to it.
NewRun ==
    /\ \A c \in Callers : caller[c].pc = "idle"
    /\ link_cache # <<>>
    /\ calls_started < MaxCalls
    /\ earlier_runs' = earlier_runs \cup DOMAIN link_cache
    /\ link_cache' = <<>>
    /\ last_request_time' = 0
    /\ caller' = [c \in Callers |-> NoCall]
    /\ calls_done' = [n \in Names |-> 0]
    /\ UNCHANGED <<now, requests, calls_started>>

\* Half a second passes.
Tick ==
    /\ now < MaxTime
    /\ now' = now + 1
    /\ UNCHANGED <<link_cache, last_request_time, caller, requests, calls_started, calls_done>>

(***************************************************************************)
(* src/enrichment.py: the tabular pass.  A statement of the graph handed   *)
(* to it is a triple <<entity, property, value>>.                          *)
(***************************************************************************)
\* str.strip() for blanks
RECURSIVE Strip(_)
Strip(s) ==
    IF s = "" THEN ""
    ELSE IF SubSeq(s, 1, 1) = " " THEN Strip(SubSeq(s, 2, Len(s)))
    ELSE IF SubSeq(s, Len(s), Len(s)) = " " THEN Strip(SubSeq(s, 1, Len(s) - 1))
    ELSE s

\* normalize_name, line 51: apostrophes are dropped, "-" becomes a blank
RECURSIVE DropPunctuation(_)
DropPunctuation(s) ==
    IF s = "" THEN ""
    ELSE LET ch == SubSeq(s, 1, 1)
         IN  (IF ch = "'" THEN "" ELSE IF ch = "-" THEN " " ELSE ch)
             \o DropPunctuation(SubSeq(s, 2, Len(s)))

\* " ".join(s.split()): runs of blanks become one blank, none at the ends
RECURSIVE JoinWords(_)
JoinWords(s) ==
    LET t == Strip(s)
    IN  IF ~Contains(t, " ") THEN t
        ELSE FirstWord(t) \o " " \o JoinWords(SubSeq(t, Len(FirstWord(t)) + 1, Len(t)))

\* normalize_name
NormalizeName(name) ==
    IF name = "" THEN "" ELSE JoinWords(DropPunctuation(Strip(Lower(name))))

\* The properties the pass can add, by the column of the row they come from.
CsvProperty ==
    [gender |-> "gender", race |-> "raceLabel", hair |-> "hairColor",
     height |-> "height", realm |-> "realm"]

CsvColumns == DOMAIN CsvProperty

\* The entities of the graph and the names of the rows.
CsvEntities == {"Frodo"}
CsvLabels   == {"Frodo Baggins"}
CsvNames    == {"frodo  BAGGINS", "Sam-wise"}

\* normalize_name of every label and row name (computed once).
NormalizedName == [n \in CsvLabels \cup CsvNames |-> NormalizeName(n)]

\* The statements an entity may carry before the pass: its type, its label,
\* and a value for any of the five properties.
OldValue ==
    [gender |-> "male", race |-> "Hobbits", hair |-> "Brown",
     height |-> "1.06 m", realm |-> "The Shire"]

\* The value a row may hold in each column; "" is an empty cell.
NewValue ==
    [gender |-> "Female", race |-> "Men", hair |-> "Blond",
     height |-> "Tall", realm |-> "Gondor"]

CsvGraphs ==
    { {<<e, "type", type>>, <<e, "label", label>>}
        \cup {<<e, CsvProperty[col], OldValue[col]>> : col \in cols} :
      e \in CsvEntities, type \in {"Character", "Location"},
      label \in CsvLabels, cols \in SUBSET CsvColumns }

CsvRows ==
    { [name |-> name] @@ [col \in CsvColumns |-> IF col \in cols THEN NewValue[col] ELSE ""] :
      name \in CsvNames, cols \in SUBSET CsvColumns }

\* graph.objects(entity, property)
Objects(graph, entity, property) ==
    {st[3] : st \in {t \in graph : t[1] = entity /\ t[2] = property}}

\* enrich_with_csv, lines 293-297: csv_index, by normalized name (a later row
\* replaces an earlier one of the same name).
CsvIndex(rows) ==
    [n \in {NormalizedName[rows[i].name] : i \in DOMAIN rows} |->
        rows[CHOOSE i \in DOMAIN rows :
                /\ NormalizedName[rows[i].name] = n
                /\ \A j \in DOMAIN rows : NormalizedName[rows[j].name] = n => j <= i]]

\* enrich_with_csv, lines 317-340: the statements added to one matched entity.
CsvAdditions(graph, entity, csv_data) ==
    (IF csv_data.gender # "" /\ Objects(graph, entity, "gender") = {}
     THEN {<<entity, "gender", Lower(csv_data.gender)>>} ELSE {})
    \cup
    (IF csv_data.race # "" /\ Objects(graph, entity, "raceLabel") = {}
     THEN {<<entity, "raceLabel", csv_data.race>>} ELSE {})
    \cup
    (IF csv_data.hair # "" THEN {<<entity, "hairColor", csv_data.hair>>} ELSE {})
    \cup
    (IF csv_data.height # "" THEN {<<entity, "height", csv_data.height>>} ELSE {})
    \cup
    (IF csv_data.realm # "" THEN {<<entity, "realm", csv_data.realm>>} ELSE {})

\* enrich_with_csv, lines 300-313: the Character entities whose label
\* matches a row.
CsvMatched(graph, rows) ==
    {e \in {t[1] : t \in {u \in graph : u[2] = "type" /\ u[3] = "Character"}} :
        \E label \in Objects(graph, e, "label") :
            NormalizedName[label] \in DOMAIN CsvIndex(rows)}

\* enrich_with_csv: the graph after the pass.  Each entity has one label.
CsvResult(graph, rows) ==
    graph \cup UNION { CsvAdditions(graph, e,
                          CsvIndex(rows)[NormalizedName[CHOOSE label \in Objects(graph, e, "label") : TRUE]]) :
                       e \in CsvMatched(graph, rows) }

\* enrich_with_csv(graph, csv_path) runs on the rows load_csv_characters
\* returned (none when the file cannot be read).
EnrichWithCsv ==
    /\ csv_pc = "idle"
    /\ csv_before' = csv_graph
    /\ csv_graph' = CsvResult(csv_graph, csv_rows)
    /\ csv_pc' = "done"
    /\ UNCHANGED csv_rows

(***************************************************************************)
(* src/rdf_generator.py: one RDFGenerator and the process() calls made on  *)
(* it, one after the other.  A template is its detected type and the names *)
(* of the parameters it fills.                                             *)
(***************************************************************************)
MaxProcess == 2          \* process() calls made on the generator

ITypes        == {"character", "object"}           \* detect_type's answers
ParamNames    == {"name", "owner"}
Templates     == [itype : ITypes, params : SUBSET ParamNames]
Owner         == "Sauron"                          \* the page an owner field links to
GenLinkKinds  == {"dbpedia", "wikipedia"}
\* discover_external_links' answers: a record with some kinds, or none.
GenLinkAnswers == {{}, GenLinkKinds}

\* RDFGenerator.__init__
NewGenerator == [graph |-> {}, external_links_cache |-> <<>>]

\* RDFGenerator.reset: self.graph = create_graph()
\* (variant: the graph of the previous call is kept)
GenResetKeeps(gen) == gen
GenReset(gen) == [gen EXCEPT !.graph = {}]

\* RDFGenerator.add_types
AddTypes(title, itype) ==
    IF itype = "character"
    THEN { <<Res(title), <<"p", "type">>, <<"class", "Person">>>>,
           <<Res(title), <<"p", "type">>, <<"class", "Character">>>> }
    ELSE { <<Res(title), <<"p", "type">>, <<"class", "Thing">>>>,
           <<Res(title), <<"p", "type">>, <<"class", "Artifact">>>> }

\* RDFGenerator.process_character: of the model's parameters it reads "name".
ProcessCharacter(title, params) ==
    IF "name" \in params
    THEN { <<Res(title), <<"p", "name">>, <<"literal", title>>>> } ELSE {}

\* RDFGenerator.process_object: it reads "name" and "owner"; the owner's
\* statements have the owner as subject or object.
ProcessObject(title, params) ==
    (IF "name" \in params
     THEN { <<Res(title), <<"p", "name">>, <<"literal", title>>>> } ELSE {})
    \cup
    (IF "owner" \in params
     THEN { <<Res(Owner), <<"p", "owns">>, Res(title)>>,
            <<Res(title), <<"p", "ownedBy">>, Res(Owner)>> } ELSE {})

\* RDFGenerator.process, lines 286-295: the dispatch on the detected type.
ProcessFields(title, template) ==
    IF template.itype = "object"
    THEN ProcessObject(title, template.params)
    ELSE ProcessCharacter(title, template.params)

\* RDFGenerator.add_external_links, lines 264-276: one statement per kind.
ExternalLinkStatements(title, links) ==
    { <<Res(title),
        <<"p", IF kind = "wikipedia" THEN "seeAlso" ELSE "sameAs">>,
        <<kind, title>>>> : kind \in links }

NoProcess  == [pc |-> "idle", title |-> "-", template |-> [itype |-> "-", params |-> {}]]
NoReturned == [title |-> "-", template |-> [itype |-> "-", params |-> {}],
               links |-> {}, graph |-> {}]

\* RDFGenerator.process, lines 279-296: reset, then the base, type and field
\* statements of this title and template (process_image adds a statement of
\* the same entity when the template names an image; it is left out).
GenProcess(title, template) ==
    /\ gen_call.pc = "idle"
    /\ gen_calls < MaxProcess
    /\ gen_calls' = gen_calls + 1
    /\ generator' = [GenReset(generator) EXCEPT
                        !.graph = @ \cup AddBase(title)
                                    \cup AddTypes(title, template.itype)
                                    \cup ProcessFields(title, template)]
    /\ gen_call' = [pc |-> "linking", title |-> title, template |-> template]
    /\ UNCHANGED gen_returned

\* The end of a process() call: the graph is returned.
GenReturn(links) ==
    /\ gen_call' = NoProcess
    /\ gen_returned' = [title |-> gen_call.title, template |-> gen_call.template,
                        links |-> links, graph |-> generator'.graph]
    /\ UNCHANGED gen_calls

\* RDFGenerator.add_external_links with a name the generator's cache holds.
GenLinksCached ==
    /\ gen_call.pc = "linking"
    /\ gen_call.title \in DOMAIN generator.external_links_cache
    /\ LET links == generator.external_links_cache[gen_call.title]
       IN  /\ generator' = [generator EXCEPT
                               !.graph = @ \cup ExternalLinkStatements(gen_call.title, links)]
           /\ GenReturn(links)

\* RDFGenerator.add_external_links, lines 256-258: discover_external_links
\* answers and the answer is cached.
GenLinksDiscovered ==
    /\ gen_call.pc = "linking"
    /\ gen_call.title \notin DOMAIN generator.external_links_cache
    /\ \E links \in GenLinkAnswers :
         /\ generator' = [generator EXCEPT
                             !.graph = @ \cup ExternalLinkStatements(gen_call.title, links),
                             !.external_links_cache = @ @@ (gen_call.title :> links)]
         /\ GenReturn(links)

\* RDFGenerator.add_external_links, lines 259-263: discover_external_links
\* raises; the call goes on without links and caches nothing.
GenLinksFailed ==
    /\ gen_call.pc = "linking"
    /\ gen_call.title \notin DOMAIN generator.external_links_cache
    /\ UNCHANGED generator
    /\ GenReturn({})

(***************************************************************************)
(* src/wiki.py: WikiClient._request                                        *)
(***************************************************************************)
MAX_RETRIES == 3         \* MAX_RETRIES
MaxRequests == 2         \* _request calls of one client

\* What one HTTP attempt comes to.
\*   ok           : status 200 and a JSON body
\*   rate_limited : status 429
\*   failed       : a connection error, a timeout, or another error status
\*                  (raise_for_status): a requests.RequestException
\*   not_json     : status 200 and a body that is no JSON; response.json()
\*                  raises an exception that is a RequestException or a plain
\*                  ValueError, depending on the version of requests
HttpAnswers == {"ok", "rate_limited", "failed", "not_json"}

\* _request, line 179: wait_time = (attempt + 1) * 5
\* (variant: the same pause after every rate-limited attempt)
BackoffFlat(attempt) == 5
Backoff(attempt) == (attempt + 1) * 5

\* A client that is in no _request call.
NoRequest ==
    [pc |-> "idle", attempt |-> 0, delayed |-> FALSE, log |-> <<>>, result |-> "-",
     calls |-> 0]

\* One attempt of the call as the instrumentation sees it: the answer and
\* the seconds slept after it.
Attempted(answer, wait) == [answer |-> answer, wait |-> wait]

\* The call returns.
RequestReturns(rq, result) == [rq EXCEPT !.pc = "returned", !.result = result]

\* _request, lines 168-172: the pause that keeps REQUEST_DELAY between two
\* calls (it is taken when the last call is less than a second old), then
\* the loop starts with attempt 0.
RequestStart ==
    /\ wiki_request.pc \in {"idle", "returned", "raised"}
    /\ wiki_request.calls < MaxRequests
    /\ \E delayed \in BOOLEAN :
         wiki_request' = [NoRequest EXCEPT !.pc = "attempt", !.delayed = delayed,
                                           !.calls = wiki_request.calls + 1]

\* _request, lines 175-190: one HTTP attempt and what follows it.
RequestAttempt ==
    /\ wiki_request.pc = "attempt"
    /\ \E answer \in HttpAnswers, caught \in BOOLEAN :
         LET rq == wiki_request
         IN  wiki_request' =
               IF answer = "rate_limited"
               THEN [rq EXCEPT !.pc = "sleep",
                               !.log = Append(@, Attempted(answer, Backoff(rq.attempt)))]
               ELSE IF answer = "ok"
               THEN RequestReturns([rq EXCEPT !.log = Append(@, Attempted(answer, 0))], "data")
               ELSE IF answer = "not_json" /\ ~caught
               THEN [rq EXCEPT !.pc = "raised", !.log = Append(@, Attempted(answer, 0))]
               ELSE IF rq.attempt < MAX_RETRIES - 1
               THEN [rq EXCEPT !.pc = "sleep", !.log = Append(@, Attempted(answer, 2))]
               ELSE RequestReturns([rq EXCEPT !.log = Append(@, Attempted(answer, 0))], "None")

\* time.sleep returns (lines 181 and 188) and `continue` takes the loop to
\* the next attempt; after the last attempt line 192 returns None.
RequestWake ==
    /\ wiki_request.pc = "sleep"
    /\ wiki_request' =
          IF wiki_request.attempt + 1 < MAX_RETRIES
          THEN [wiki_request EXCEPT !.pc = "attempt", !.attempt = @ + 1]
          ELSE RequestReturns([wiki_request EXCEPT !.attempt = @ + 1], "None")

(***************************************************************************)
(* src/enrichment.py: the catalog pass, enrich_with_metw.  A card is its   *)
(* English name and its id ("" for a card without id and code).            *)
(***************************************************************************)
MaxCards == 3            \* cards load_metw_cards returned

MetwEntities == {"e1", "e2"}
MetwLabels   == {"Gandalf Grey", "Frodo"}
MetwCards ==
    { [name |-> "Gandalf-Grey",  id |-> "tw-1"],
      [name |-> "gandalf grey",  id |-> "tw-2"],
      [name |-> "Gandalf Greyy", id |-> "tw-3"],
      [name |-> "Gandalf Gray",  id |-> "tw-4"],
      [name |-> "Gandolf Grey",  id |-> ""],
      [name |-> "Gandalf",       id |-> "tw-6"],
      [name |-> "",              id |-> "tw-7"] }

\* normalize_name of every label and card name (computed once).
MetwNormalized ==
    [n \in MetwLabels \cup {card.name : card \in MetwCards} |-> NormalizeName(n)]

\* The length of the common run of a[i..ahi] and b[j..bhi].
RECURSIVE RunLength(_, _, _, _, _, _)
RunLength(a, i, ahi, b, j, bhi) ==
    IF i > ahi \/ j > bhi \/ SubSeq(a, i, i) # SubSeq(b, j, j) THEN 0
    ELSE 1 + RunLength(a, i + 1, ahi, b, j + 1, bhi)

\* SequenceMatcher.find_longest_match without junk: the longest block common
\* to a[alo..ahi] and b[blo..bhi]; of those, the one that starts earliest in
\* a, and of those, the one that starts earliest in b.
FindLongestMatch(a, alo, ahi, b, blo, bhi) ==
    LET run  == [p \in (alo..ahi) \X (blo..bhi) |->
                    RunLength(a, p[1], ahi, b, p[2], bhi)]
        size == CHOOSE k \in {run[p] : p \in DOMAIN run} :
                    \A q \in DOMAIN run : run[q] <= k
        best == CHOOSE p \in DOMAIN run :
                    /\ run[p] = size
                    /\ \A q \in DOMAIN run :
                          (run[q] = size) =>
                              (p[1] < q[1] \/ (p[1] = q[1] /\ p[2] <= q[2]))
    IN  [i |-> best[1], j |-> best[2], size |-> size]

\* SequenceMatcher.get_matching_blocks: the characters in matching blocks.
RECURSIVE MatchedChars(_, _, _, _, _, _)
MatchedChars(a, alo, ahi, b, blo, bhi) ==
    IF alo > ahi \/ blo > bhi THEN 0
    ELSE LET m == FindLongestMatch(a, alo, ahi, b, blo, bhi)
         IN  IF m.size = 0 THEN 0
             ELSE m.size
                  + MatchedChars(a, alo, m.i - 1, b, blo, m.j - 1)
                  + MatchedChars(a, m.i + m.size, ahi, b, m.j + m.size, bhi)

\* similarity: SequenceMatcher.ratio() of the normalized names, 2*M/T, kept
\* as the fraction num/den (1.0 when both are empty).
Similarity(a, b) ==
    LET na == MetwNormalized[a]
        nb == MetwNormalized[b]
    IN  IF Len(na) + Len(nb) = 0 THEN [num |-> 1, den |-> 1]
        ELSE [num |-> 2 * MatchedChars(na, 1, Len(na), nb, 1, Len(nb)),
              den |-> Len(na) + Len(nb)]

\* The similarity of every label to every card name (computed once).
SimilarityOf ==
    [a \in MetwLabels |-> [b \in {card.name : card \in MetwCards} |-> Similarity(a, b)]]

\* x > y and x >= y for fractions
Greater(x, y) == x.num * y.den > y.num * x.den
AtLeast(x, y) == x.num * y.den >= y.num * x.den

NoScore == [num |-> 0, den |-> 1]       \* best_score = 0
MetwThreshold == [num |-> 9, den |-> 10]   \* threshold=0.9, line 193

\* find_matching_card: the position of the best card, 0 for None.  The loop
\* keeps a card whose score is above the best so far and at least the
\* threshold; a card without name is passed over.
\* (variant: a card whose score equals the best so far replaces it)
RECURSIVE FindMatchingCardLastTie(_, _, _)
FindMatchingCardLastTie(name, cards, threshold) ==
    IF cards = <<>> THEN 0
    ELSE LET n     == Len(cards)
             rest  == FindMatchingCardLastTie(name, SubSeq(cards, 1, n - 1), threshold)
             best  == IF rest = 0 THEN NoScore ELSE SimilarityOf[name][cards[rest].name]
             score == SimilarityOf[name][cards[n].name]
         IN  IF cards[n].name # "" /\ (rest = 0 \/ AtLeast(score, best)) /\ Greater(score, NoScore)
                /\ AtLeast(score, threshold)
             THEN n ELSE rest
RECURSIVE FindMatchingCard(_, _, _)
FindMatchingCard(name, cards, threshold) ==
    IF cards = <<>> THEN 0
    ELSE LET n     == Len(cards)
             rest  == FindMatchingCard(name, SubSeq(cards, 1, n - 1), threshold)
             best  == IF rest = 0 THEN NoScore ELSE SimilarityOf[name][cards[rest].name]
             score == SimilarityOf[name][cards[n].name]
         IN  IF cards[n].name # "" /\ Greater(score, best) /\ AtLeast(score, threshold)
             THEN n ELSE rest

\* enrich_with_metw, lines 166-172: cards_index, by normalized name (a later
\* card replaces an earlier one of the same name); the position of the card.
CardsIndex(cards) ==
    [n \in {MetwNormalized[cards[i].name] : i \in {k \in DOMAIN cards : cards[k].name # ""}} |->
        CHOOSE i \in DOMAIN cards :
            /\ cards[i].name # ""
            /\ MetwNormalized[cards[i].name] = n
            /\ \A j \in DOMAIN cards :
                  (cards[j].name # "" /\ MetwNormalized[cards[j].name] = n) => j <= i]

\* enrich_with_metw, lines 175-184: the Character entities that have a label.
MetwNamed(graph) ==
    {e \in {t[1] : t \in {u \in graph : u[2] = "type" /\ u[3] = "Character"}} :
        Objects(graph, e, "label") # {}}

\* The name of an entity (each entity has one label).
MetwName(graph, e) == CHOOSE label \in Objects(graph, e, "label") : TRUE

\* enrich_with_metw, lines 187-193: the exact lookup, then the fuzzy search;
\* the position of the card, 0 for none.
MetwCardFor(name, cards) ==
    IF MetwNormalized[name] \in DOMAIN CardsIndex(cards)
    THEN CardsIndex(cards)[MetwNormalized[name]]
    ELSE FindMatchingCard(name, cards, MetwThreshold)

\* enrich_with_metw, lines 197-198: card_uri
CardUri(card, name) ==
    "http://tolkien-kg.org/metw/card/"
        \o (IF card.id # "" THEN card.id ELSE ReplaceSpaces(MetwNormalized[name]))

\* enrich_with_metw, lines 201-210: the statements added for a matched card
\* (the cards carry no type, text, attributes or set).
MetwAdditions(e, name, card) ==
    { <<e, "metwCard", CardUri(card, name)>>,
      <<CardUri(card, name), "type", "METWCard">>,
      <<CardUri(card, name), "label", card.name>> }

\* enrich_with_metw: the graph after the pass.
MetwResult(graph, cards) ==
    IF cards = <<>> THEN graph
    ELSE graph \cup UNION
           { LET name == MetwName(graph, e)
                 at   == MetwCardFor(name, cards)
             IN  IF at = 0 THEN {} ELSE MetwAdditions(e, name, cards[at]) :
             e \in MetwNamed(graph) }

\* The graphs handed to the pass: e1 is a character named Gandalf Grey; e2
\* is absent, a character without label, another character, or a place of
\* the same name.
MetwGraphs ==
    { {<<"e1", "type", "Character">>, <<"e1", "label", "Gandalf Grey">>} \cup more :
      more \in { {},
                 {<<"e2", "type", "Character">>},
                 {<<"e2", "type", "Character">>, <<"e2", "label", "Frodo">>},
                 {<<"e2", "type", "Character">>, <<"e2", "label", "Gandalf Grey">>},
                 {<<"e2", "type", "Place">>, <<"e2", "label", "Gandalf Grey">>} } }

NoMetw == [pc |-> "idle", graph |-> {}, cards |-> <<>>, before |-> {}, scanned |-> {}]

\* enrich_with_metw(graph, cards) runs on the cards load_metw_cards returned
\* (none when they cannot be loaded).
EnrichWithMetw ==
    /\ metw.pc = "idle"
    /\ metw' = [metw EXCEPT
                   !.pc = "done",
                   !.before = metw.graph,
                   !.graph = MetwResult(metw.graph, metw.cards),
                   !.scanned =
                       IF metw.cards = <<>> THEN {}
                       ELSE {e \in MetwNamed(metw.graph) :
                               MetwNormalized[MetwName(metw.graph, e)]
                                   \notin DOMAIN CardsIndex(metw.cards)}]

(***************************************************************************)
(* src/enrichment.py: the multilingual pass, enrich_multilingual.  A label *)
(* is the pair of its text and its language tag.                           *)
(***************************************************************************)
MaxBatch == 2            \* max_entities is at most this

MlLanguages == <<"fr", "de">>          \* languages, as requested
MlEntities  == {"e1", "e2"}
MlName      == [e \in MlEntities |-> IF e = "e1" THEN "Gandalf" ELSE "Minas Tirith"]

\* What search_fandom_wiki comes to for one name and language:
\*   failed : the request or the decoding raised (caught, None)
\*   none   : no result (None)
\*   same   : the first result has the entity's own name as title
\*   found  : the first result has another title
FandomAnswers == {"failed", "none", "same", "found"}

\* search_fandom_wiki: the title returned, "" for None.
FoundTitle(name, lang, answer) ==
    IF answer = "found" THEN name \o " " \o lang
    ELSE IF answer = "same" THEN name
    ELSE ""

\* enrich_multilingual, lines 456-460: has_label
HasLabel(graph, entity, lang) ==
    \E lbl \in Objects(graph, entity, "label") : lbl[2] = lang

\* enrich_multilingual, lines 427-431: the first label of the entity that is
\* untagged or English makes it a member of `entities`.
HasEnglishLabel(graph, entity) ==
    \E lbl \in Objects(graph, entity, "label") : lbl[2] \in {"en", ""}

\* enrich_multilingual, lines 467-472: the statements added for a title.
MlAdditions(entity, lang, found_title) ==
    { <<entity, "label", <<found_title, lang>> >>,
      <<entity, "seeAlso",
        "https://lotr.fandom.com/" \o lang \o "/wiki/" \o ReplaceSpaces(found_title)>> }

\* The graphs handed to the pass: each entity is a character with its
\* English name (e2 possibly without) and labels in some of the languages.
MlGraphs ==
    { {<<e, "type", "Character">> : e \in MlEntities}
        \cup {<<e, "label", <<MlName[e], "en">> >> : e \in english}
        \cup {<<"e1", "label", <<"Gandalf " \o lang, lang>> >> : lang \in l1}
        \cup {<<"e2", "label", <<"Minas Tirith " \o lang, lang>> >> : lang \in l2} :
      english \in {{"e1"}, {"e1", "e2"}},
      l1 \in SUBSET {"fr", "de"}, l2 \in SUBSET {"fr", "de"} }

\* The orders in which graph.subjects may yield the entities.
MlOrders == { <<"e1", "e2">>, <<"e2", "e1">> }

NoMultilingual ==
    [pc |-> "idle", graph |-> {}, order |-> <<>>, max_entities |-> 0,
     entities |-> <<>>, i |-> 0, l |-> 0, before |-> {}, lookups |-> <<>>]

\* enrich_multilingual, lines 423-446: the entities are collected and cut
\* to max_entities.
MlCollect ==
    /\ multilingual.pc = "idle"
    /\ LET ml       == multilingual
           all      == SelectSeq(ml.order, LAMBDA e : HasEnglishLabel(ml.graph, e))
           entities == SubSeq(all, 1, IF Len(all) < ml.max_entities
                                      THEN Len(all) ELSE ml.max_entities)
       IN  multilingual' =
             [ml EXCEPT !.pc = IF entities = <<>> THEN "done" ELSE "loop",
                        !.entities = entities, !.i = 1, !.l = 1, !.before = ml.graph]

\* The pass after language l of entity i: the next language, the next
\* entity, or the end.
MlAdvance(ml) ==
    IF ml.l < Len(MlLanguages) THEN [ml EXCEPT !.l = @ + 1]
    ELSE IF ml.i < Len(ml.entities) THEN [ml EXCEPT !.i = @ + 1, !.l = 1]
    ELSE [ml EXCEPT !.pc = "done"]

\* enrich_multilingual, lines 454-481: one language of one entity.  A
\* language that has a label is passed over; otherwise the wiki of the
\* language is searched, and a title other than the name is added.
MlLanguage ==
    /\ multilingual.pc = "loop"
    /\ LET ml     == multilingual
           entity == ml.entities[ml.i]
           lang   == MlLanguages[ml.l]
       IN  IF HasLabel(ml.graph, entity, lang)
           THEN multilingual' = MlAdvance(ml)
           ELSE \E answer \in FandomAnswers :
                  LET found_title == FoundTitle(MlName[entity], lang, answer)
                  IN  multilingual' =
                        MlAdvance([ml EXCEPT
                           !.lookups = Append(@, [entity |-> entity, lang |-> lang,
                                                  answer |-> answer]),
                           !.graph = IF found_title # "" /\ found_title # MlName[entity]
                                     THEN @ \cup MlAdditions(entity, lang, found_title)
                                     ELSE @])

(***************************************************************************)
(* src/rdf_generator.py and src/wiki.py: process_image, with the lookup    *)
(* get_image_direct_url makes through a WikiClient of its own.             *)
(***************************************************************************)
\* The value of the image field, stripped; "" when the template has none.
ImageFields == {"", "Gandalf.jpg", "File:Gandalf.jpg", "image:One Ring.png"}

\* hashlib.md5(filename).hexdigest() of the file names in use.
Md5Hex ==
    ("Gandalf.jpg" :> "6b653eaeb989a7d42e6d3819fba990e2")
    @@ ("One Ring.png" :> "145200e5d8808a45cba7fe17adab46c6")

\* The url the wiki reports for a file.
ReportedUrl(filename) == "https://static.tolkiengateway.net/" \o Quote(filename, "/")

\* What the body of a successful imageinfo request holds:
\*   no_query     : no "query"
\*   missing      : the page id is -1
\*   no_imageinfo : a page without "imageinfo"
\*   no_url       : an imageinfo entry without "url"
\*   url          : an imageinfo entry with the file's url
\*   malformed    : a body of another shape; reading it raises
ImageBodies == {"no_query", "missing", "no_imageinfo", "no_url", "url", "malformed"}

\* build_image_url and get_image_direct_url, the loop over the prefixes.
RECURSIVE StripFilePrefix(_, _)
StripFilePrefix(filename, prefixes) ==
    IF prefixes = <<>> THEN filename
    ELSE StripFilePrefix(IF StartsWith(filename, Head(prefixes))
                         THEN SubSeq(filename, Len(Head(prefixes)) + 1, Len(filename))
                         ELSE filename,
                         Tail(prefixes))

FilePrefixes == <<"File:", "Image:", "file:", "image:">>

\* build_image_url: the url of the file's description page, "" for None.
BuildImageUrl(filename) ==
    IF filename = "" THEN ""
    ELSE "https://tolkiengateway.net/wiki/File:"
            \o Quote(Strip(StripFilePrefix(Strip(filename), FilePrefixes)), "/")

\* get_image_direct_url, lines 152-157: the url built from the MD5 hash.
HashedUrl(filename) ==
    "https://tolkiengateway.net/w/images/" \o SubSeq(Md5Hex[filename], 1, 1) \o "/"
        \o SubSeq(Md5Hex[filename], 1, 2) \o "/" \o Quote(filename, "/")

\* get_image_direct_url for a name that is not empty, given how _request
\* ended and what the body held: the url returned, "" for None.
GetImageDirectUrl(image_name, request, body) ==
    LET filename == StripFilePrefix(Strip(image_name), FilePrefixes)
    IN  IF request.pc = "returned" /\ request.result = "data" /\ body = "url"
        THEN ReportedUrl(filename)
        ELSE IF request.pc = "returned" /\ request.result = "data" /\ body = "no_url"
        THEN ""
        ELSE HashedUrl(filename)

NoImage == [pc |-> "idle", field |-> "", body |-> "-", graph |-> {}]

\* process_image, lines 224-230: without an image field nothing happens;
\* otherwise get_image_direct_url creates a WikiClient and calls _request.
ImageStart ==
    /\ image.pc = "idle"
    /\ IF image.field = ""
       THEN /\ image' = [image EXCEPT !.pc = "done"]
            /\ UNCHANGED wiki_request
       ELSE /\ image' = [image EXCEPT !.pc = "lookup"]
            /\ RequestStart
            /\ ~wiki_request'.delayed

\* get_image_direct_url, lines 140-157, and process_image, lines 230-241:
\* the request is over; the url returned becomes the image statement, and
\* without one the url of build_image_url does.
ImageFinish ==
    /\ image.pc = "lookup"
    /\ wiki_request.pc \in {"returned", "raised"}
    /\ \E body \in ImageBodies :
         /\ (wiki_request.result # "data") => (body = "no_query")
         /\ LET direct_url == GetImageDirectUrl(image.field, wiki_request, body)
                url        == IF direct_url # "" THEN direct_url
                              ELSE BuildImageUrl(image.field)
            IN  image' = [image EXCEPT
                            !.pc = "done",
                            !.body = IF wiki_request.result = "data" THEN body ELSE "-",
                            !.graph = IF url # "" THEN @ \cup {<<"entity", "image", url>>}
                                      ELSE @]
    /\ UNCHANGED wiki_request

(***************************************************************************)
(* src/rdf_generator.py and src/wiki.py: detect_type, the dispatch of      *)
(* process() and the date-like fields of the routines.                     *)
(***************************************************************************)
\* str(infobox.name) of the templates handed to detect_type.
TemplateNames ==
    { "Campaign", " battle ", "Infobox Character", "infobox place", "Location infobox",
      "Infobox Object", "weapon infobox", "Infobox Artifact", "Infobox Book",
      "Infobox Event", "Infobox Battle", "Infobox War", "Infobox Conflict",
      "Infobox", "Infobox Place Event", "Infobox Award" }

\* The date-like fields and the values a template may give them.
DateFields == {"birth", "death", "founded", "destroyed", "date"}
DateValues ==
    { "unknown", " Unknown ", "c.", "Around", " ., ", "late Third Age", "Early First age",
      "{{TA|3019}}", "TA 2941", "unknown year" }

\* detect_type, line 58: the keywords in the order they are tried.
TypeKeywords ==
    << "character", "place", "location", "object", "weapon", "artifact", "book",
       "event", "battle", "war", "conflict" >>

\* detect_type, lines 58-64: the first keyword of the list that the name
\* contains, "conflict" counting as "war"; "unknown" without one.
\* (variant: "conflict" is returned as it is)
RECURSIVE FirstKeywordAsIs(_, _)
FirstKeywordAsIs(name, keywords) ==
    IF keywords = <<>> THEN "unknown"
    ELSE IF Contains(name, Head(keywords)) THEN Head(keywords)
    ELSE FirstKeywordAsIs(name, Tail(keywords))
RECURSIVE FirstKeyword(_, _)
FirstKeyword(name, keywords) ==
    IF keywords = <<>> THEN "unknown"
    ELSE IF Contains(name, Head(keywords))
    THEN (IF Head(keywords) = "conflict" THEN "war" ELSE Head(keywords))
    ELSE FirstKeyword(name, Tail(keywords))

\* detect_type
DetectType(template_name) ==
    LET name == Lower(Strip(template_name))
    IN  IF name = "campaign" THEN "war"
        ELSE IF name = "battle" THEN "battle"
        ELSE FirstKeyword(name, TypeKeywords)

\* RDFGenerator.process, lines 286-295: the routine a type is handed to.
Routine(itype) ==
    IF itype = "character" THEN "process_character"
    ELSE IF itype \in {"place", "location"} THEN "process_place"
    ELSE IF itype \in {"object", "weapon", "artifact"} THEN "process_object"
    ELSE IF itype \in {"event", "battle", "war"} THEN "process_event"
    ELSE "process_character"

\* clean_date_field: an era template gives "<era> <year>"; text without
\* markup is stripped.
EraCodes == {"FA", "SA", "TA", "FoA", "YT", "YS", "VY"}
CleanDateField(text) ==
    IF StartsWith(text, "{{") /\ Contains(text, "|")
    THEN LET bar   == CHOOSE i \in 1..Len(text) :
                         SubSeq(text, i, i) = "|" /\ ~Contains(SubSeq(text, 1, i - 1), "|")
             tname == Strip(SubSeq(text, 3, bar - 1))
             year  == Strip(SubSeq(text, bar + 1, Len(text) - 2))
         IN  IF tname \in EraCodes THEN Strip(tname \o " " \o year) ELSE Strip(text)
    ELSE Strip(text)

\* s.endswith(suffix)
EndsWith(s, suffix) ==
    Len(suffix) <= Len(s) /\ SubSeq(s, Len(s) - Len(suffix) + 1, Len(s)) = suffix

\* is_valid_date: the patterns of line 94 on the lower-cased, stripped text.
IsValidDate(date_str) ==
    LET t == Strip(Lower(date_str))
    IN  /\ date_str # ""
        /\ ~(\A i \in 1..Len(t) : InStr(SubSeq(t, i, i), ",. "))
        /\ t \notin {"c.", "around", "unknown"}
        /\ ~(StartsWith(t, "late") /\ EndsWith(t, "age") /\ Len(t) >= 7)
        /\ ~(StartsWith(t, "early") /\ EndsWith(t, "age") /\ Len(t) >= 8)

\* The property a routine writes a date-like field to; the routine reads
\* no other date-like field.
DateProperty ==
    [process_character |-> [birth |-> "birthDate", death |-> "deathDate"],
     process_place     |-> [founded |-> "foundingDate", destroyed |-> "destroyedDate"],
     process_event     |-> [date |-> "startDate"],
     process_object    |-> <<>>]

\* process_character, lines 141-152: birth and death pass is_valid_date.
\* process_place, lines 180-187, and process_event, lines 211-214: founded,
\* destroyed and date are added whenever the cleaned value is not empty.
DateStatements(routine, field, value) ==
    IF field \notin DOMAIN DateProperty[routine] THEN {}
    ELSE LET d == CleanDateField(value)
         IN  IF d # "" /\ (routine = "process_character" => IsValidDate(d))
             THEN {<<"entity", DateProperty[routine][field], d>>}
             ELSE {}

NoDated ==
    [pc |-> "idle", template |-> "", field |-> "", value |-> "", itype |-> "-",
     routine |-> "-", graph |-> {}]

\* RDFGenerator.process, lines 283-295, for a template with one date-like
\* field.
ProcessDated ==
    /\ dated.pc = "idle"
    /\ LET itype == DetectType(dated.template)
       IN  dated' = [dated EXCEPT
                       !.pc = "done",
                       !.itype = itype,
                       !.routine = Routine(itype),
                       !.graph = DateStatements(Routine(itype), dated.field, dated.value)]

\* The parts that are not running.
DatedIdle == dated = NoDated
ImageIdle == image = NoImage
WikiIdle == wiki_request = NoRequest
MetwIdle == metw = NoMetw
MlIdle   == multilingual = NoMultilingual
OtherIdle == WikiIdle /\ MetwIdle /\ MlIdle /\ ImageIdle /\ DatedIdle

BuildInit ==
    /\ build_cancel_flags = <<>>
    /\ build_progress_queues = <<>>
    /\ thread = [s \in Sessions |-> NoThread]
    /\ builder = [s \in Sessions |-> NewBuilder]
    /\ wiki_calls = [s \in Sessions |-> NoCalls]
    /\ cancelled_at = [s \in Sessions |-> NotCancelled]

\* The build leaves the resolver and the tabular pass alone.
BuildFrame == UNCHANGED <<linkVars, csvVars, genVars, earlier_runs, filter, search_answers, otherVars>>

\* The resolver before any call: an empty cache, _last_request_time = 0 and a
\* clock far past it.
LinkIdle ==
    /\ link_cache = <<>>
    /\ last_request_time = 0
    /\ now = REQUEST_DELAY
    /\ caller = [c \in Callers |-> NoCall]
    /\ requests = <<>>
    /\ calls_started = 0
    /\ calls_done = [n \in Names |-> 0]
    /\ earlier_runs = {}
    /\ filter = NoFilter
    /\ search_answers = <<>>

CsvIdle ==
    /\ csv_graph = {}
    /\ csv_rows = <<>>
    /\ csv_pc = "idle"
    /\ csv_before = {}

GenIdle ==
    /\ generator = NewGenerator
    /\ gen_call = NoProcess
    /\ gen_returned = NoReturned
    /\ gen_calls = 0

\* The generator leaves the build sessions, the resolver and the tabular pass
\* alone.
GenFrame == UNCHANGED <<buildVars, linkVars, csvVars, earlier_runs, filter, search_answers, otherVars>>

InitGen == BuildInit /\ LinkIdle /\ CsvIdle /\ GenIdle /\ OtherIdle
NextGen ==
    \/ \E title \in Titles, template \in Templates : GenProcess(title, template) /\ GenFrame
    \/ GenLinksCached /\ GenFrame
    \/ GenLinksDiscovered /\ GenFrame
    \/ GenLinksFailed /\ GenFrame
SpecGen == InitGen /\ [][NextGen]_vars

Init == BuildInit /\ LinkIdle /\ CsvIdle /\ GenIdle /\ OtherIdle
Next ==
    \E s \in Sessions :
        \/ BuildStart(s) /\ BuildFrame
        \/ BuildCancel(s) /\ BuildFrame
        \/ BuildBegin(s) /\ BuildFrame
        \/ CatReport(s) /\ BuildFrame
        \/ CatCheck(s) /\ BuildFrame
        \/ CatFetch(s) /\ BuildFrame
        \/ CatFetchRaises(s) /\ BuildFrame
        \/ PageCheck(s) /\ BuildFrame
        \/ PageReport(s) /\ BuildFrame
        \/ PageFetch(s) /\ BuildFrame
        \/ PageRecord(s) /\ BuildFrame
        \/ AddOntology(s) /\ BuildFrame
        \/ Enrich(s) /\ BuildFrame
        \/ Save(s) /\ BuildFrame
Spec == Init /\ [][Next]_vars

\* The cache before the calls the model follows: empty, or holding a record
\* that an earlier call of the same process left there.
SeededCaches == {<<>>, ("Gandalf" :> DerivedLinks("Gandalf (wizard)"))}

LinkInit ==
    /\ link_cache \in SeededCaches
    /\ last_request_time = 0
    /\ now = REQUEST_DELAY
    /\ caller = [c \in Callers |-> NoCall]
    /\ requests = <<>>
    /\ calls_started = 0
    /\ calls_done = [n \in Names |-> 0]
    /\ earlier_runs = {}
    /\ filter = NoFilter
    /\ search_answers = <<>>

\* The resolver leaves the build sessions and the tabular pass alone.
LinkFrame == UNCHANGED <<buildVars, csvVars, genVars, earlier_runs, filter, search_answers, otherVars>>

InitLink == BuildInit /\ LinkInit /\ CsvIdle /\ GenIdle /\ OtherIdle
NextLink ==
    \/ \E c \in Callers, name \in Names : Discover(c, name) /\ LinkFrame
    \/ \E c \in Callers : RateLimit(c) /\ LinkFrame
    \/ \E c \in Callers : Wake(c) /\ LinkFrame
    \/ \E c \in Callers : SearchVariant(c) /\ LinkFrame
    \/ \E c \in Callers : Lookup(c) /\ LinkFrame
    \/ \E c \in Callers : Direct(c) /\ LinkFrame
    \/ \E c \in Callers : VerifyStart(c) /\ LinkFrame
    \/ \E c \in Callers : Verify(c) /\ LinkFrame
    \/ ClearCache /\ LinkFrame
    \/ Tick /\ LinkFrame
SpecLink == InitLink /\ [][NextLink]_vars

\* Runs of the program one after the other, each starting with the module's
\* initial state.
InitRuns == BuildInit /\ LinkIdle /\ CsvIdle /\ GenIdle /\ OtherIdle
NextRuns ==
    \/ \E c \in Callers, name \in Names : Discover(c, name) /\ LinkFrame
    \/ \E c \in Callers : RateLimit(c) /\ LinkFrame
    \/ \E c \in Callers : Wake(c) /\ LinkFrame
    \/ \E c \in Callers : SearchVariant(c) /\ LinkFrame
    \/ \E c \in Callers : Lookup(c) /\ LinkFrame
    \/ \E c \in Callers : Direct(c) /\ LinkFrame
    \/ Tick /\ LinkFrame
    \/ NewRun /\ UNCHANGED <<buildVars, csvVars, genVars, filter, search_answers, otherVars>>
SpecRuns == InitRuns /\ [][NextRuns]_vars


CsvInit ==
    /\ csv_graph \in CsvGraphs
    /\ csv_rows \in {<<>>} \cup {<<row>> : row \in CsvRows}
    /\ csv_pc = "idle"
    /\ csv_before = {}

\* The tabular pass leaves the build sessions and the resolver alone.
CsvFrame == UNCHANGED <<buildVars, linkVars, genVars, earlier_runs, filter, search_answers, otherVars>>

InitCsv == BuildInit /\ LinkIdle /\ CsvInit /\ GenIdle /\ OtherIdle
NextCsv == EnrichWithCsv /\ CsvFrame
SpecCsv == InitCsv /\ [][NextCsv]_vars

\* One search_wikipedia call, with the engine's answers on record.  The name
\* is one for which some title passes the filter; for any other name every
\* answer is one without a passing candidate.  The clock stands still: the
\* search sends its requests without a pause in between (the one _rate_limit
\* call comes before the first of them).
InitSearch == BuildInit /\ LinkIdle /\ CsvIdle /\ GenIdle /\ OtherIdle
NextSearch ==
    \/ \E c \in Callers, name \in Names :
          Discover(c, name) /\ AcceptedTitles[name] # {} /\ LinkFrame
    \/ \E c \in Callers : RateLimit(c) /\ LinkFrame
    \/ \E c \in Callers, answer \in SearchAnswers :
          /\ SearchVariantAnswered(c, answer)
          /\ search_answers' = Append(search_answers, answer)
          /\ UNCHANGED <<buildVars, csvVars, genVars, earlier_runs, filter, otherVars>>
SpecSearch == InitSearch /\ [][NextSearch]_vars

\* One discover_external_links call from the search to the cached record,
\* with every answer of the network on record.  The name is one for which
\* some title passes the filter, and the clock moves only while the call
\* sleeps in _rate_limit.  The search engine lists at most one candidate
\* per query variant; the direct search lists up to MaxResults.
OneCandidateAnswers == {answer \in SearchAnswers : Len(answer.results) <= 1}

InitDiscover == BuildInit /\ LinkIdle /\ CsvIdle /\ GenIdle /\ OtherIdle
NextDiscover ==
    \/ \E c \in Callers, name \in Names :
          Discover(c, name) /\ AcceptedTitles[name] # {} /\ LinkFrame
    \/ \E c \in Callers : RateLimit(c) /\ LinkFrame
    \/ \E c \in Callers : Wake(c) /\ LinkFrame
    \/ Tick /\ (\E c \in Callers : caller[c].pc = "sleep") /\ LinkFrame
    \/ \E c \in Callers, answer \in OneCandidateAnswers :
          /\ SearchVariantAnswered(c, answer)
          /\ search_answers' = Append(search_answers, answer)
          /\ UNCHANGED <<buildVars, csvVars, genVars, earlier_runs, filter, otherVars>>
    \/ \E c \in Callers, answer \in LookupAnswers :
          /\ LookupAnswered(c, answer)
          /\ search_answers' = Append(search_answers, answer)
          /\ UNCHANGED <<buildVars, csvVars, genVars, earlier_runs, filter, otherVars>>
    \/ \E c \in Callers, answer \in DirectAnswers :
          /\ DirectAnswered(c, answer)
          /\ search_answers' = Append(search_answers, answer)
          /\ UNCHANGED <<buildVars, csvVars, genVars, earlier_runs, filter, otherVars>>
SpecDiscover == InitDiscover /\ [][NextDiscover]_vars

\* The wiki client alone.  Every attempt ends (the HTTP call has a timeout
\* of REQUEST_TIMEOUT seconds) and every sleep ends.
RequestFrame ==
    UNCHANGED <<buildVars, linkVars, csvVars, genVars, earlier_runs, filter, search_answers,
                metw, multilingual, image, dated>>
InitRequest == BuildInit /\ LinkIdle /\ CsvIdle /\ GenIdle /\ OtherIdle
NextRequest ==
    \/ RequestStart /\ RequestFrame
    \/ RequestAttempt /\ RequestFrame
    \/ RequestWake /\ RequestFrame
SpecRequest ==
    /\ InitRequest /\ [][NextRequest]_vars
    /\ WF_vars(RequestAttempt /\ RequestFrame)
    /\ WF_vars(RequestWake /\ RequestFrame)

\* The catalog pass on one graph and one list of cards.
InitMetw ==
    /\ BuildInit /\ LinkIdle /\ CsvIdle /\ GenIdle /\ WikiIdle /\ MlIdle /\ ImageIdle
    /\ DatedIdle
    /\ metw \in [pc : {"idle"}, graph : MetwGraphs, cards : SeqsUpTo(MetwCards, MaxCards),
                 before : {{}}, scanned : {{}}]
NextMetw ==
    EnrichWithMetw
    /\ UNCHANGED <<buildVars, linkVars, csvVars, genVars, earlier_runs, filter, search_answers,
                   wiki_request, multilingual, image, dated>>
SpecMetw == InitMetw /\ [][NextMetw]_vars

\* The multilingual pass on one graph.
MlFrame ==
    UNCHANGED <<buildVars, linkVars, csvVars, genVars, earlier_runs, filter, search_answers,
                wiki_request, metw, image, dated>>
InitMl ==
    /\ BuildInit /\ LinkIdle /\ CsvIdle /\ GenIdle /\ WikiIdle /\ MetwIdle /\ ImageIdle
    /\ DatedIdle
    /\ \E graph \in MlGraphs, order \in MlOrders, max_entities \in 1..MaxBatch :
          multilingual = [NoMultilingual EXCEPT !.graph = graph, !.order = order,
                                                !.max_entities = max_entities]
NextMl ==
    \/ MlCollect /\ MlFrame
    \/ MlLanguage /\ MlFrame
SpecMl == InitMl /\ [][NextMl]_vars

\* One process_image call with the request of its lookup.
ImageFrame ==
    UNCHANGED <<buildVars, linkVars, csvVars, genVars, earlier_runs, filter, search_answers,
                metw, multilingual, dated>>
InitImage ==
    /\ BuildInit /\ LinkIdle /\ CsvIdle /\ GenIdle /\ WikiIdle /\ MetwIdle /\ MlIdle
    /\ DatedIdle
    /\ \E field \in ImageFields : image = [NoImage EXCEPT !.field = field]
NextImage ==
    \/ ImageStart /\ ImageFrame
    \/ RequestAttempt /\ RequestFrame
    \/ RequestWake /\ RequestFrame
    \/ ImageFinish /\ ImageFrame
SpecImage == InitImage /\ [][NextImage]_vars

\* One process() call on a template with one date-like field.
InitDated ==
    /\ BuildInit /\ LinkIdle /\ CsvIdle /\ GenIdle
    /\ WikiIdle /\ MetwIdle /\ MlIdle /\ ImageIdle
    /\ \E template \in TemplateNames, field \in DateFields, value \in DateValues :
          dated = [NoDated EXCEPT !.template = template, !.field = field, !.value = value]
NextDated ==
    ProcessDated
    /\ UNCHANGED <<buildVars, linkVars, csvVars, genVars, earlier_runs, filter, search_answers,
                   wiki_request, metw, multilingual, image>>
SpecDated == InitDated /\ [][NextDated]_vars

\* The filter applied to one pair of arguments.
InitFilter ==
    /\ BuildInit /\ CsvIdle /\ GenIdle /\ OtherIdle
    /\ link_cache = <<>>
    /\ last_request_time = 0
    /\ now = REQUEST_DELAY
    /\ caller = [c \in Callers |-> NoCall]
    /\ requests = <<>>
    /\ calls_started = 0
    /\ calls_done = [n \in Names |-> 0]
    /\ earlier_runs = {}
    /\ filter \in [title : FilterTitles, name : FilterNames, result : {"-"}]
    /\ search_answers = <<>>
NextFilter ==
    FilterApply /\ UNCHANGED <<buildVars, linkVars, csvVars, genVars, earlier_runs, search_answers, otherVars>>
SpecFilter == InitFilter /\ [][NextFilter]_vars

(***************************************************************************)
(* Properties of the build orchestrator, checked under Spec.               *)
(***************************************************************************)
\* The title the page loop of session s stands at.
CurrentTitle(s) == thread[s].pages[thread[s].i]

\* The title's page was merged into the graph of session s: it succeeded.
Succeeded(s, title) == AddBase(title) \subseteq builder[s].graph

\* The title was marked processed without being merged: it had no template.
HadNoTemplate(s, title) ==
    title \in builder[s].processed_pages /\ ~Succeeded(s, title)

\* Session s takes the step of lines 123-137 and is not interrupted at line 123.
ChecksPage(s) ==
    /\ thread[s].pc = "page_check"
    /\ thread'[s] # thread[s]
    /\ thread'[s].pc # "done"

\* Session s takes the step that turns the fetched page into an outcome.
RecordsPage(s) ==
    /\ thread[s].pc = "page_record"
    /\ thread'[s] # thread[s]

\* C1: within one build, a title that already succeeded and is met again
\* (in the same or a later category) is neither fetched nor merged again:
\* the graph, the processed set and every counter stay as they are, except
\* duplicates_skipped, which grows by exactly 1.
C1_RepeatIsSkipped ==
    [][\A s \in Sessions :
          (ChecksPage(s) /\ Succeeded(s, CurrentTitle(s)))
          => /\ builder'[s].stats =
                   [builder[s].stats EXCEPT !.duplicates_skipped = @ + 1]
             /\ builder'[s].graph = builder[s].graph
             /\ builder'[s].processed_pages = builder[s].processed_pages
             /\ wiki_calls'[s] = wiki_calls[s]
             /\ thread'[s].pc # "page_report"]_vars

\* C1 witness: one title succeeded and was then skipped twice, the second
\* time in a later category.
C1_Witness ==
    \E s \in Sessions :
        /\ builder[s].stats.success = 1
        /\ builder[s].stats.no_infobox = 0
        /\ builder[s].stats.duplicates_skipped = 2
        /\ builder[s].stats.processed = 1
        /\ thread[s].idx = 2

\* C2: when cancellation is requested after category k has completed and
\* before category k+1 starts, category k+1 (and any later one) is never
\* fetched, no further page is fetched, the statistics and graph of the
\* categories 1..k stay as they were, and the session ends with the terminal
\* event 'cancelled'.
C2_CancelBetweenCategories ==
    \A s \in Sessions :
        (cancelled_at[s].pc = "cat_report" /\ cancelled_at[s].idx >= 2)
        => /\ \A k \in cancelled_at[s].idx..MaxCats : k \notin wiki_calls[s].category
           /\ wiki_calls[s] = cancelled_at[s].calls
           /\ builder[s] = cancelled_at[s].builder
           /\ thread[s].pc \in {"cat_report", "done"}
           /\ thread[s].pc = "done"
                => /\ thread[s].final = "cancelled"
                   /\ LET q == build_progress_queues[s]
                      IN  /\ Len(q) >= 2
                          /\ q[Len(q)] = EndMarker
                          /\ q[Len(q) - 1].step = "cancelled"
                          /\ \A k \in 1..(Len(q) - 2) :
                                q[k].step \notin {"cancelled", "error", "complete", "None"}

\* C2 witness: category 1 merged a page, cancellation came before category 2,
\* and the session has ended.
C2_Witness ==
    \E s \in Sessions :
        /\ cancelled_at[s].pc = "cat_report"
        /\ cancelled_at[s].idx = 2
        /\ cancelled_at[s].builder.stats.success >= 1
        /\ thread[s].pc = "done"

\* C3: a page whose wikitext holds no recognizable template is an outcome,
\* not an exception: the loop goes on, no_infobox grows by 1 and no other
\* counter changes, the graph gains nothing, and the title joins the
\* processed set; a later occurrence of that title is skipped as a duplicate,
\* not fetched again.
C3_NoTemplate ==
    [][\A s \in Sessions :
          /\ (RecordsPage(s) /\ thread[s].wikitext = "no_template")
             => /\ thread'[s].pc # "done"
                /\ builder'[s].stats = [builder[s].stats EXCEPT !.no_infobox = @ + 1]
                /\ builder'[s].graph = builder[s].graph
                /\ builder'[s].processed_pages =
                      builder[s].processed_pages \cup {thread[s].title}
          /\ (ChecksPage(s) /\ HadNoTemplate(s, CurrentTitle(s)))
             => /\ builder'[s].stats =
                      [builder[s].stats EXCEPT !.duplicates_skipped = @ + 1]
                /\ builder'[s].processed_pages = builder[s].processed_pages
                /\ wiki_calls'[s] = wiki_calls[s]
                /\ thread'[s].pc # "page_report"]_vars

\* C3 witness: a page without template was counted and later skipped.
C3_Witness ==
    \E s \in Sessions :
        /\ builder[s].stats.no_infobox = 1
        /\ builder[s].stats.success = 0
        /\ builder[s].stats.errors = 0
        /\ builder[s].stats.duplicates_skipped = 1
        /\ builder[s].graph = {}

\* C4: when process_page fails for another reason (no page, or an exception
\* inside it), errors grows by 1 and no other counter changes, the graph and
\* the processed set stay as they are, and the loop goes on; the title is
\* therefore not in the processed set, and a title that is not in it is
\* processed, not skipped, when it is met again.
C4_ErrorNotMarked ==
    [][\A s \in Sessions :
          /\ (RecordsPage(s) /\ thread[s].wikitext \in {"request_failed", "empty_text", "malformed"})
             => /\ thread'[s].pc # "done"
                /\ builder'[s].stats = [builder[s].stats EXCEPT !.errors = @ + 1]
                /\ builder'[s].graph = builder[s].graph
                /\ builder'[s].processed_pages = builder[s].processed_pages
                /\ thread[s].title \notin builder'[s].processed_pages
          /\ (ChecksPage(s) /\ CurrentTitle(s) \notin builder[s].processed_pages)
             => /\ builder'[s].stats = [builder[s].stats EXCEPT !.processed = @ + 1]
                /\ thread'[s].pc = "page_report"]_vars

\* C4 witness: a category lists the same title twice; it failed the first
\* time and has just been fetched again.
C4_Witness ==
    \E s \in Sessions :
        /\ thread[s].pc = "page_record"
        /\ thread[s].i = 2
        /\ thread[s].pages[1] = thread[s].pages[2]
        /\ thread[s].idx = 1
        /\ builder[s].stats.errors = 1
        /\ builder[s].stats.processed = 2
        /\ wiki_calls[s].page = 2

\* C10: a build always ends with the statistics summary, whatever fails
\* upstream: a session that stopped without being cancelled has returned
\* from build().
C10_AlwaysSummary ==
    \A s \in Sessions :
        (thread[s].pc = "done" /\ thread[s].final # "cancelled") => thread[s].summary

(***************************************************************************)
(* Properties of the link resolver, checked under SpecLink.                *)
(***************************************************************************)
\* Thread c calls discover_external_links(name) in this step.
Calls(c, name) ==
    /\ caller[c].pc = "idle"
    /\ calls_started' = calls_started + 1
    /\ caller'[c].name = name

\* A call of discover_external_links(name) by thread c returns in this step.
Returns(c, name) ==
    /\ calls_done'[name] = calls_done[name] + 1
    /\ caller'[c].name = name
    /\ caller'[c].pc = "idle"

\* The requests the call with this number has sent.
RequestsOf(call) == {requests[i] : i \in {j \in DOMAIN requests : requests[j].call = call}}

\* C5: when the cache holds an entry for a name, discover_external_links(name)
\* returns that entry at once and sends no request: the request log, the
\* cache and the time of the last request stay as they are.
C5_CacheHit ==
    [][\A c \in Callers, name \in Names :
          (Calls(c, name) /\ name \in DOMAIN link_cache)
          => /\ caller'[c].pc = "idle"
             /\ caller'[c].result = link_cache[name]
             /\ requests' = requests
             /\ link_cache' = link_cache
             /\ last_request_time' = last_request_time]_vars

\* C5 witness: with a cache seeded before the first call, the first call
\* returned the seeded record and no request has ever been sent.
C5_Witness ==
    \E c \in Callers :
        /\ caller[c].pc = "idle"
        /\ caller[c].call = 1
        /\ caller[c].name = "Gandalf"
        /\ caller[c].result = LinksOfTitle["Gandalf (wizard)"]
        /\ calls_done["Gandalf"] = 1
        /\ requests = <<>>

\* C6: a call of discover_external_links(name) that returns leaves its result
\* in the cache under name, also when the result is empty; and once a call
\* for a name has returned, and clear_cache has not run since, a further call
\* for that name returns the cached record and sends no request.
C6_AlwaysCached ==
    [][\A c \in Callers, name \in Names :
          /\ Returns(c, name)
             => /\ name \in DOMAIN link_cache'
                /\ link_cache'[name] = caller'[c].result
          /\ (Calls(c, name) /\ calls_done[name] > 0)
             => /\ Returns(c, name)
                /\ caller'[c].result = link_cache[name]
                /\ requests' = requests]_vars

\* C6 witness: the first call for a name found nothing and cached the empty
\* record; the second call for it has returned; every request is the first
\* call's.
C6_Witness ==
    \E c \in Callers :
        /\ caller[c].pc = "idle"
        /\ caller[c].call = 2
        /\ caller[c].name = "Frodo"
        /\ caller[c].result = <<>>
        /\ calls_done["Frodo"] = 2
        /\ "Frodo" \in DOMAIN link_cache
        /\ link_cache["Frodo"] = <<>>
        /\ RequestsOf(1) # {}
        /\ RequestsOf(2) = {}

\* C7: any two outbound requests of the resolver are at least REQUEST_DELAY
\* apart, whichever sub-step and whichever call sent them.
C7_MinimumDelay ==
    \A i, j \in DOMAIN requests :
        i < j => requests[j].at - requests[i].at >= REQUEST_DELAY

\* C8: no failure of an outbound call leaves discover_external_links: no call
\* ends raised, and a call in which outbound calls failed returns a record
\* that is cached under its name, that lacks the key of a source that failed
\* (the article links when no search variant gave a title, the wikidata key
\* when the lookup or the direct search failed), and the sub-steps after the
\* failure were still sent (every later search variant, and then the lookup
\* or the direct search).
C8_NeverRaises ==
    \A c \in Callers :
        LET cl   == caller[c]
            sent == RequestsOf(cl.call)
        IN  /\ cl.pc # "raised"
            /\ (cl.pc = "idle" /\ cl.name \in Names /\ cl.failed # {})
               => /\ calls_done[cl.name] > 0
                     => /\ cl.name \in DOMAIN link_cache
                        /\ link_cache[cl.name] = cl.result
                  /\ "lookup" \in cl.failed
                     => /\ "wikidata" \notin DOMAIN cl.result
                        /\ {"wikipedia", "dbpedia", "yago"} \subseteq DOMAIN cl.result
                  /\ "direct" \in cl.failed => cl.result = <<>>
                  /\ "search" \in cl.failed
                     => /\ \E r \in sent : r.step \in {"lookup", "direct"}
                        /\ "wikipedia" \notin DOMAIN cl.result
                           => /\ \A k \in 1..NumVariants :
                                    \E r \in sent : r.step = "search" /\ r.k = k
                              /\ \E r \in sent : r.step = "direct"
                              /\ {"dbpedia", "yago"} \cap DOMAIN cl.result = {}

\* C8 witness: every outbound call of a call failed (the five search
\* variants and the direct search), and the call returned the empty record,
\* which is cached.
C8_Witness ==
    \E c \in Callers :
        /\ caller[c].pc = "idle"
        /\ caller[c].name = "Gandalf"
        /\ caller[c].failed = {"search", "direct"}
        /\ caller[c].result = <<>>
        /\ Cardinality(RequestsOf(caller[c].call)) = NumVariants + 1
        /\ "Gandalf" \in DOMAIN link_cache
        /\ link_cache["Gandalf"] = <<>>

(***************************************************************************)
(* Properties of the tabular pass, checked under SpecCsv.                  *)
(***************************************************************************)
\* C9: for each of the five properties the pass can add, an entity that
\* carried a statement for it before the pass carries the same statements for
\* it after the pass: the original value, and no second one.
C9_NeverOverwrites ==
    csv_pc = "done"
    => \A e \in CsvEntities, col \in CsvColumns :
          Objects(csv_before, e, CsvProperty[col]) # {}
          => Objects(csv_graph, e, CsvProperty[col])
                = Objects(csv_before, e, CsvProperty[col])

(***************************************************************************)
(* Progress of one build session.                                          *)
(***************************************************************************)
\* The events of a queue that carry a progress value (all but None).
ProgressEvents(q) == SelectSeq(q, LAMBDA e : e # EndMarker)

\* The category an event of the page loop belongs to: the number of "fetch"
\* events up to and including it.
CategoryOf(q, j) == Cardinality({i \in 1..j : q[i].step = "fetch"})

\* C11: the progress values one build session reports (start, fetch, process,
\* ontology, enrichment, save and the final event) never decrease; every
\* fetch and process value lies within 0..60, and the values of category k of
\* n lie within [(k-1)*60/n, k*60/n] whatever the number of pages.
C11_ProgressNonDecreasing ==
    \A s \in DOMAIN build_progress_queues :
        LET q == ProgressEvents(build_progress_queues[s])
            n == Len(thread[s].cats)
        IN  /\ \A i, j \in 1..Len(q) : (i < j) => (q[i].progress <= q[j].progress)
            /\ \A j \in 1..Len(q) :
                 (q[j].step \in {"fetch", "process"}) =>
                     /\ 0 <= q[j].progress
                     /\ q[j].progress <= 60 * PScale
                     /\ (CategoryOf(q, j) - 1) * 60 * PScale <= q[j].progress * n
                     /\ q[j].progress * n <= CategoryOf(q, j) * 60 * PScale

(***************************************************************************)
(* The builder's graph.                                                    *)
(***************************************************************************)
\* C12: every step of a build (a page merge, the ontology, the enrichment
\* passes, and every step that does not touch the graph) leaves all the
\* statements the builder's graph held before it: the graph only grows.
C12_GraphOnlyGrows ==
    [][\A s \in Sessions : builder[s].graph \subseteq builder'[s].graph]_vars

\* Two pages were merged, then the ontology and an enrichment pass added theirs.
C12_Witness ==
    \E s \in Sessions :
        /\ thread[s].pc = "pre_save"
        /\ builder[s].stats.success = 2
        /\ (AddBase("t1") \cup AddBase("t2") \cup OntologyGraph \cup EnrichGraph)
               \subseteq builder[s].graph

(***************************************************************************)
(* Properties of the statement generator, checked under SpecGen.           *)
(***************************************************************************)
\* C13: whatever calls were made on the generator before, the graph a
\* process() call returns holds exactly the statements of that call's title,
\* template and links: nothing of an earlier call is left in it.
C13_NoLeakBetweenCalls ==
    (gen_returned # NoReturned) =>
        gen_returned.graph =
            AddBase(gen_returned.title)
              \cup AddTypes(gen_returned.title, gen_returned.template.itype)
              \cup ProcessFields(gen_returned.title, gen_returned.template)
              \cup ExternalLinkStatements(gen_returned.title, gen_returned.links)

\* A second call returned, for another title and another type than the first
\* call's, whose links are still in the generator's cache.
C13_Witness ==
    /\ gen_calls = 2
    /\ gen_call.pc = "idle"
    /\ gen_returned.title = "t2"
    /\ gen_returned.template.itype = "object"
    /\ "t1" \in DOMAIN generator.external_links_cache
    /\ generator.external_links_cache["t1"] = GenLinkKinds

(***************************************************************************)
(* The end of a build session.                                             *)
(***************************************************************************)
TerminalSteps == {"complete", "cancelled", "error"}

\* The positions of a queue that hold a terminal event, and those that hold
\* the end-of-stream marker.
TerminalAt(q) == {i \in 1..Len(q) : q[i].step \in TerminalSteps}
EndAt(q)      == {i \in 1..Len(q) : q[i] = EndMarker}

\* C14: a running session has put neither a terminal event nor the marker; a
\* finished session has put exactly one terminal event ('complete',
\* 'cancelled' or 'error'), directly followed by the end-of-stream marker,
\* which is the last item of its queue.  A build stopped by the cancellation
\* signal put 'cancelled', and 'cancelled' is only put for a session whose
\* flag was set.
C14_OneTerminalEvent ==
    \A s \in DOMAIN build_progress_queues :
        LET q == build_progress_queues[s]
        IN  IF thread[s].pc = "done"
            THEN /\ TerminalAt(q) = {Len(q) - 1}
                 /\ EndAt(q) = {Len(q)}
                 /\ (thread[s].final = "cancelled") <=> (q[Len(q) - 1].step = "cancelled")
                 /\ (q[Len(q) - 1].step = "cancelled") => build_cancel_flags[s]
                 /\ q[Len(q) - 1].step = thread[s].final
            ELSE TerminalAt(q) = {} /\ EndAt(q) = {}

\* A build that was cancelled in its second category, after it had reported
\* progress: its queue ends with 'cancelled' and the marker.
C14_Witness ==
    \E s \in DOMAIN build_progress_queues :
        LET q == build_progress_queues[s]
        IN  /\ thread[s].pc = "done"
            /\ thread[s].final = "cancelled"
            /\ thread[s].idx = 2
            /\ Len(q) >= 5
            /\ q[Len(q) - 1] = Event("cancelled", 0)
            /\ q[Len(q)] = EndMarker

(***************************************************************************)
(* Two build sessions side by side (src/server/app.py: one run_build       *)
(* thread, queue, flag and KGBuilder per session id).  Each build is kept  *)
(* short so that every interleaving of the two is explored.                *)
(***************************************************************************)
TwoCats  == 1        \* categories of a build, with two sessions
TwoPages == 1        \* pages of a category, with two sessions

TwoSessions == {"s1", "s2"}

TwoInit ==
    /\ build_cancel_flags = <<>>
    /\ build_progress_queues = <<>>
    /\ thread = [s \in TwoSessions |-> NoThread]
    /\ builder = [s \in TwoSessions |-> NewBuilder]
    /\ wiki_calls = [s \in TwoSessions |-> NoCalls]
    /\ cancelled_at = [s \in TwoSessions |-> NotCancelled]

InitTwo == TwoInit /\ LinkIdle /\ CsvIdle /\ GenIdle /\ OtherIdle
NextTwo ==
    \E s \in TwoSessions :
        \/ BuildStart(s) /\ Len(thread'[s].cats) <= TwoCats /\ BuildFrame
        \/ BuildCancel(s) /\ BuildFrame
        \/ BuildBegin(s) /\ BuildFrame
        \/ CatReport(s) /\ BuildFrame
        \/ CatCheck(s) /\ BuildFrame
        \/ CatFetch(s) /\ Len(thread'[s].pages) <= TwoPages /\ BuildFrame
        \/ CatFetchRaises(s) /\ BuildFrame
        \/ PageCheck(s) /\ BuildFrame
        \/ PageReport(s) /\ BuildFrame
        \/ PageFetch(s) /\ BuildFrame
        \/ PageRecord(s) /\ BuildFrame
        \/ AddOntology(s) /\ BuildFrame
        \/ Enrich(s) /\ BuildFrame
        \/ Save(s) /\ BuildFrame
SpecTwo == InitTwo /\ [][NextTwo]_vars

\* What belongs to session t: its flag, its queue, its thread and its
\* builder (statistics, processed set, graph) are the same after the step.
Untouched(t) ==
    /\ (t \in DOMAIN build_cancel_flags) <=> (t \in DOMAIN build_cancel_flags')
    /\ (t \in DOMAIN build_cancel_flags) => (build_cancel_flags'[t] = build_cancel_flags[t])
    /\ (t \in DOMAIN build_progress_queues) <=> (t \in DOMAIN build_progress_queues')
    /\ (t \in DOMAIN build_progress_queues) =>
           (build_progress_queues'[t] = build_progress_queues[t])
    /\ thread'[t] = thread[t]
    /\ builder'[t] = builder[t]

\* The step sets the flag of session s, or stops its build with 'cancelled'.
Cancels(s) ==
    \/ /\ s \in DOMAIN build_cancel_flags
       /\ ~build_cancel_flags[s]
       /\ build_cancel_flags'[s]
    \/ thread[s].final # "cancelled" /\ thread'[s].final = "cancelled"

\* C15: with two sessions building at the same time, the request that cancels
\* one and the stop of its build leave the other session's flag, progress
\* events, statistics, processed set and graph as they are; and a build is
\* stopped as cancelled only when its own flag was set.
C15_CancelIsLocal ==
    [][\A s \in TwoSessions :
          /\ Cancels(s) => \A t \in TwoSessions \ {s} : Untouched(t)
          /\ (thread[s].final # "cancelled" /\ thread'[s].final = "cancelled")
                 => build_cancel_flags[s]
      ]_vars

\* One session was cancelled during a page fetch and stopped as cancelled;
\* the other one, never cancelled, completed with a page in its graph.
C15_Witness ==
    /\ thread["s1"].final = "cancelled"
    /\ cancelled_at["s1"].pc = "page_fetch"
    /\ thread["s2"].final = "complete"
    /\ builder["s2"].stats.success = 1
    /\ build_cancel_flags = [s \in TwoSessions |-> s = "s1"]

(***************************************************************************)
(* Two threads in the resolver at the same time (src/linking.py: the       *)
(* module-level _link_cache is shared by every build session).  Every      *)
(* search answer of this specification lists a title the filter accepts,   *)
(* so that a call is a search and a lookup and every interleaving of two   *)
(* calls is explored.                                                      *)
(***************************************************************************)
TwoCallers == {"c1", "c2"}

\* The cache when the calls start: empty, or holding another name's record.
RaceCaches == {<<>>, ("Frodo" :> <<>>)}

InitRace ==
    /\ BuildInit /\ CsvIdle /\ GenIdle /\ OtherIdle
    /\ link_cache \in RaceCaches
    /\ last_request_time = 0
    /\ now = REQUEST_DELAY
    /\ caller = [c \in TwoCallers |-> NoCall]
    /\ requests = <<>>
    /\ calls_started = 0
    /\ calls_done = [n \in Names |-> 0]
    /\ earlier_runs = {}
    /\ filter = NoFilter
    /\ search_answers = <<>>
NextRace ==
    \/ \E c \in TwoCallers, name \in Names : Discover(c, name) /\ LinkFrame
    \/ \E c \in TwoCallers : RateLimit(c) /\ LinkFrame
    \/ \E c \in TwoCallers : Wake(c) /\ LinkFrame
    \/ \E c \in TwoCallers : SearchVariant(c) /\ caller'[c].pc # "search" /\ LinkFrame
    \/ \E c \in TwoCallers : Lookup(c) /\ LinkFrame
    \/ Tick /\ LinkFrame
SpecRace == InitRace /\ [][NextRace]_vars

\* Thread c returns from a call that had to resolve its name.
Resolves(c) == caller[c].pc \in {"lookup", "direct"} /\ caller'[c].pc = "idle"

\* C16: however the calls of two threads interleave, a call that resolves a
\* name leaves its own record under that name (the last one to return wins),
\* and the cache changes in no other way: every other name keeps its entry,
\* and nothing but a resolving call writes to the cache.
C16_LastWriteWins ==
    [][/\ \A c \in TwoCallers :
             Resolves(c) =>
                 /\ caller[c].name \in DOMAIN link_cache'
                 /\ link_cache'[caller[c].name] = caller'[c].result
                 /\ \A n \in DOMAIN link_cache \ {caller[c].name} :
                        n \in DOMAIN link_cache' /\ link_cache'[n] = link_cache[n]
       /\ (link_cache' # link_cache) => \E c \in TwoCallers : Resolves(c)
      ]_vars

\* Both threads resolved the same name at the same time (neither found it
\* cached) and returned different records; the cache holds one of them, and
\* the record of the other name is still there.
C16_Witness ==
    /\ \A c \in TwoCallers : caller[c].pc = "idle" /\ caller[c].name = "Gandalf"
    /\ \A c \in TwoCallers : Cardinality({i \in DOMAIN requests : requests[i].call = caller[c].call}) = 2
    /\ caller["c1"].result # caller["c2"].result
    /\ link_cache["Gandalf"] \in {caller["c1"].result, caller["c2"].result}
    /\ "Frodo" \in DOMAIN link_cache

(***************************************************************************)
(* Records that lack a kind, checked under SpecLink.                       *)
(***************************************************************************)
LinkKinds == {"wikipedia", "dbpedia", "yago", "wikidata"}

\* The cache holds a record for the name, and the record lacks a kind.
CachedIncomplete(name) ==
    name \in DOMAIN link_cache /\ DOMAIN link_cache[name] # LinkKinds

C18_PersistedAcrossRuns ==
    [][\A c \in Callers, name \in Names :
          (Calls(c, name) /\ name \in earlier_runs)
          => /\ Returns(c, name)
             /\ requests' = requests]_vars

(***************************************************************************)
(* The title filter, checked under SpecFilter.                             *)
(***************************************************************************)
\* The lower-cased title holds a domain indicator.
HasIndicator(title) ==
    \E indicator \in TolkienIndicators : Contains(Lower(title), indicator)

\* The title is the name, or holds the name followed by a parenthetical
\* (both compared in lower case).
NamesIt(title, name) ==
    \/ Lower(title) = Lower(name)
    \/ Contains(Lower(title), Lower(name) \o " (")

\* The lower-cased title holds the name or starts with the name's first word.
RelatedToName(title, name) ==
    \/ Contains(Lower(title), Lower(name))
    \/ StartsWith(Lower(title), FirstWord(Lower(name)))

\* C19 as stated: the filter accepts exactly when the lower-cased title holds
\* a domain indicator, or equals the name, or is the name plus a
\* parenthetical; a title with an indicator is accepted whatever its relation
\* to the name.
C19_AcceptsExactly ==
    (filter.result # "-") =>
        ((filter.result = "accepted")
            <=> (HasIndicator(filter.title) \/ NamesIt(filter.title, filter.name)))

\* C19, amended: the filter accepts exactly when the title is the name or
\* holds the name plus a parenthetical, or when it holds a domain indicator
\* and also holds the name or starts with the name's first word.
C19_AcceptsWhenRelated ==
    (filter.result # "-") =>
        ((filter.result = "accepted")
            <=> \/ NamesIt(filter.title, filter.name)
                \/ /\ HasIndicator(filter.title)
                   /\ RelatedToName(filter.title, filter.name))

\* A title with an indicator that is tied to the name by its first word only
\* was accepted.
C19_Witness ==
    /\ filter.result = "accepted"
    /\ filter.title = "Frodo (Middle-earth)"
    /\ filter.name = "Frodo Baggins"
    /\ HasIndicator(filter.title)
    /\ ~NamesIt(filter.title, filter.name)

(***************************************************************************)
(* The search, checked under SpecSearch.                                   *)
(***************************************************************************)
\* The requests search_wikipedia has sent, in the order they were sent.
SearchRequests == SelectSeq(requests, LAMBDA r : r.step = "search")

\* The positions of an answer's candidates that pass the filter for a name;
\* none when the request failed.
Passing(answer, name) ==
    IF answer.ok
    THEN {j \in DOMAIN answer.results : answer.results[j] \in AcceptedTitles[name]}
    ELSE {}

\* The least element of a non-empty set of numbers.
Least(S) == CHOOSE j \in S : \A i \in S : j <= i

\* C20: the search sends the query variants in their fixed order, the raw
\* name first, one request each; it goes on to the next variant only after a
\* request that failed or whose candidates all fail the filter; it returns
\* the first candidate, in the engine's order, that passes the filter, and
\* sends no request after that; it returns None only after every variant was
\* tried and no candidate of any variant passed.
C20_FirstPassingCandidate ==
    \A c \in Callers :
        LET cl == caller[c]
            n  == Len(search_answers)
        IN  /\ Len(SearchRequests) = n
            /\ n <= NumVariants
            /\ \A i \in 1..n : SearchRequests[i].k = i
            /\ \A i \in 1..(n - 1) : Passing(search_answers[i], cl.name) = {}
            /\ (cl.pc = "search") =>
                   /\ cl.k = n + 1
                   /\ (n >= 1) => (Passing(search_answers[n], cl.name) = {})
            /\ (cl.step = "lookup") =>
                   /\ n >= 1
                   /\ Passing(search_answers[n], cl.name) # {}
                   /\ cl.links = LinksOfTitle[
                          search_answers[n].results[Least(Passing(search_answers[n], cl.name))]]
            /\ (cl.step = "direct") =>
                   /\ n = NumVariants
                   /\ Passing(search_answers[n], cl.name) = {}

\* The first variant failed, the second listed no passing candidate, the
\* third listed two passing candidates: the first of them was returned, and
\* three requests were sent.
C20_Witness ==
    \E c \in Callers :
        /\ caller[c].step = "lookup"
        /\ caller[c].name = "Gandalf"
        /\ Len(search_answers) = 3
        /\ search_answers[1] = Failure
        /\ search_answers[2] = [ok |-> TRUE, results |-> <<"Mordor">>]
        /\ search_answers[3] = [ok |-> TRUE, results |-> <<"Gandalf (wizard)", "Gandalf">>]
        /\ caller[c].links = LinksOfTitle["Gandalf (wizard)"]
        /\ Len(requests) = 3

(***************************************************************************)
(* The whole resolver call, checked under SpecDiscover.                    *)
(***************************************************************************)
\* The requests of get_wikidata_id_from_wikipedia and search_wikidata_direct.
FinalRequests == SelectSeq(requests, LAMBDA r : r.step \in {"lookup", "direct"})

\* The candidates whose lower-cased description contains a domain keyword.
KeywordCandidates ==
    {cand \in WikidataCandidates :
        \E kw \in {"tolkien", "middle-earth", "lord of the rings", "fictional"} :
            Contains(Lower(cand.description), kw)}

\* The positions of such candidates in an answer; none when the request failed.
KeywordPositions(answer) ==
    IF answer.ok
    THEN {j \in DOMAIN answer.results : answer.results[j] \in KeywordCandidates}
    ELSE {}

\* C21: the direct secondary search is sent if and only if the primary
\* search returned no accepted title.  With an accepted title the record
\* holds the wikipedia key and the two keys derived from the title (dbpedia,
\* yago), and the wikidata key only if the identifier lookup succeeded;
\* without one the record holds at most the wikidata key, taken from the
\* first candidate of the direct search whose description contains a
\* domain keyword.
C21_RecordByBranch ==
    LET ns == Len(SearchRequests)
        nf == Len(FinalRequests)
    IN  /\ Len(search_answers) = ns + nf
        /\ nf <= 1
        /\ (nf = 1) =>
              LET name   == FinalRequests[1].name
                  found  == Passing(search_answers[ns], name)
                  final  == search_answers[ns + 1]
                  record == link_cache[name]
              IN  /\ name \in DOMAIN link_cache
                  /\ (FinalRequests[1].step = "direct") <=> (found = {})
                  /\ (FinalRequests[1].step = "lookup") <=> (found # {})
                  /\ (found = {}) =>
                        /\ ns = NumVariants
                        /\ \A i \in 1..ns : Passing(search_answers[i], name) = {}
                        /\ DOMAIN record \subseteq {"wikidata"}
                        /\ ("wikidata" \in DOMAIN record) <=> (KeywordPositions(final) # {})
                        /\ (KeywordPositions(final) # {}) =>
                              record["wikidata"] = "http://www.wikidata.org/entity/"
                                  \o final.results[Least(KeywordPositions(final))].id
                  /\ (found # {}) =>
                        LET title == search_answers[ns].results[Least(found)]
                        IN  /\ {"wikipedia", "dbpedia", "yago"} \subseteq DOMAIN record
                            /\ DOMAIN record \subseteq {"wikipedia", "dbpedia", "yago", "wikidata"}
                            /\ record["dbpedia"] = GetDbpediaUri(title)
                            /\ record["yago"] = GetYagoUri(title)
                            /\ ("wikidata" \in DOMAIN record) =>
                                  (final.ok /\ final.results # <<>>)

\* No variant of the search listed a passing title, the direct search
\* listed two candidates with a keyword in the description, and the record
\* holds the identifier of the first of them and nothing else.
C21_Witness ==
    /\ Len(SearchRequests) = NumVariants
    /\ Len(FinalRequests) = 1
    /\ FinalRequests[1].step = "direct"
    /\ search_answers[NumVariants + 1] =
          [ok |-> TRUE,
           results |-> << [id |-> "Q74287", description |-> "novel by J. R. R. Tolkien"],
                          [id |-> "Q177499", description |-> "Fictional wizard"] >>]
    /\ "Gandalf" \in DOMAIN link_cache
    /\ link_cache["Gandalf"] = ("wikidata" :> "http://www.wikidata.org/entity/Q74287")

(***************************************************************************)
(* Cancellation inside the page loop, checked under Spec.                  *)
(***************************************************************************)
\* The pages of a builder that have a recorded outcome.
Outcomes(bld) == bld.stats.success + bld.stats.no_infobox + bld.stats.errors

\* build_cancel ran while session s stood inside the iteration of a page that
\* it had counted as processed: before the progress report of the page,
\* before its fetch, or before the record of its outcome.
CancelledInPage(s) == cancelled_at[s].pc \in {"page_report", "page_fetch", "page_record"}

\* C22: when the flag becomes true while a page is being processed, that
\* page is completed and its outcome is recorded in the statistics and the
\* graph; no further page is started and no further category is fetched.
C22_PageCompletesAfterCancel ==
    \A s \in Sessions :
        (CancelledInPage(s) /\ thread[s].pc = "done")
        => /\ thread[s].final = "cancelled"
           /\ Outcomes(builder[s]) = Outcomes(cancelled_at[s].builder) + 1
           /\ builder[s].stats.processed = cancelled_at[s].builder.stats.processed
           /\ cancelled_at[s].builder.graph \subseteq builder[s].graph
           /\ wiki_calls[s].category = cancelled_at[s].calls.category
           /\ wiki_calls[s].page <= cancelled_at[s].calls.page + 1

\* The same for a flag that becomes true after the progress report of the
\* page, that is, during process_page or before the outcome is recorded.
C22_AfterTheReport ==
    \A s \in Sessions :
        (cancelled_at[s].pc \in {"page_fetch", "page_record"} /\ thread[s].pc = "done")
        => /\ thread[s].final = "cancelled"
           /\ Outcomes(builder[s]) = Outcomes(cancelled_at[s].builder) + 1
           /\ builder[s].stats.processed = cancelled_at[s].builder.stats.processed
           /\ cancelled_at[s].builder.graph \subseteq builder[s].graph
           /\ wiki_calls[s].category = cancelled_at[s].calls.category
           /\ wiki_calls[s].page <= cancelled_at[s].calls.page + 1

(***************************************************************************)
(* The wiki client's request, checked under SpecRequest.                   *)
(***************************************************************************)
\* The call is left, by a return or by an exception.
RequestOver == wiki_request.pc \in {"returned", "raised"}

\* The attempts of the call so far respect the cap and the backoff.
RetriesInBounds ==
    LET rq == wiki_request
    IN  /\ Len(rq.log) <= MAX_RETRIES
        /\ \A k \in DOMAIN rq.log :
              (rq.log[k].answer = "rate_limited") => (rq.log[k].wait = 5 * k)
        /\ (rq.pc = "returned") =>
              (rq.result = "data") = (rq.log[Len(rq.log)].answer = "ok")
        /\ (rq.pc = "returned" /\ rq.log[Len(rq.log)].answer # "ok") =>
              /\ rq.result = "None"
              /\ Len(rq.log) = MAX_RETRIES
        /\ (Len(rq.log) = MAX_RETRIES) => (rq.pc # "attempt")

\* C23: one _request call makes at most MAX_RETRIES HTTP attempts; after a
\* rate-limited answer to attempt k it sleeps 5*k seconds (5, 10, 15); when
\* the cap is reached without a successful answer it returns no data and
\* makes no further attempt; every call comes to an end.
C23_BoundedRetries ==
    /\ []RetriesInBounds
    /\ (wiki_request.pc \in {"attempt", "sleep"}) ~> RequestOver

\* A call that was rate-limited three times: it slept 5, 10 and 15 seconds
\* and returned None after the third pause.
C23_Witness ==
    /\ wiki_request.pc = "returned"
    /\ wiki_request.result = "None"
    /\ wiki_request.log = << Attempted("rate_limited", 5), Attempted("rate_limited", 10),
                             Attempted("rate_limited", 15) >>

(***************************************************************************)
(* The catalog pass, checked under SpecMetw.                               *)
(***************************************************************************)
\* The cards the pass linked entity e to.
MetwLinks(e) == Objects(metw.graph, e, "metwCard")

\* The positions of the cards that have a name.
NamedCards == {i \in DOMAIN metw.cards : metw.cards[i].name # ""}

\* The positions of the cards whose normalized name is that of `name`.
ExactCards(name) ==
    {i \in NamedCards : MetwNormalized[metw.cards[i].name] = MetwNormalized[name]}

\* The positions of the cards whose similarity to `name` is at least 0.9.
CloseCards(name) ==
    {i \in NamedCards : 10 * SimilarityOf[name][metw.cards[i].name].num
                            >= 9 * SimilarityOf[name][metw.cards[i].name].den}

\* Of these, the ones no other exceeds.
TopCards(name) ==
    {i \in CloseCards(name) :
        \A j \in CloseCards(name) :
            AtLeast(SimilarityOf[name][metw.cards[i].name],
                    SimilarityOf[name][metw.cards[j].name])}

\* C24: after the catalog pass, every Character entity with a label whose
\* normalized name equals that of a card is linked to such a card, and
\* find_matching_card was not run for it; any other is linked to the card
\* of highest similarity among those scoring at least 0.9, the first of
\* them on ties, and to none when no card reaches 0.9; a matched entity
\* gains exactly one link statement, and entities that are no characters
\* or have no label gain none.
C24_ExactThenBestFuzzy ==
    (metw.pc = "done") =>
        \A e \in MetwEntities :
            LET gained == {t \in metw.graph \ metw.before : t[1] = e}
            IN  /\ gained = {<<e, "metwCard", uri>> : uri \in MetwLinks(e)}
                /\ Cardinality(MetwLinks(e)) <= 1
                /\ IF <<e, "type", "Character">> \notin metw.before
                      \/ Objects(metw.before, e, "label") = {}
                   THEN MetwLinks(e) = {} /\ e \notin metw.scanned
                   ELSE LET name == CHOOSE label \in Objects(metw.before, e, "label") : TRUE
                        IN  IF ExactCards(name) # {}
                            THEN /\ e \notin metw.scanned
                                 /\ \E i \in ExactCards(name) :
                                       MetwLinks(e) = {CardUri(metw.cards[i], name)}
                            ELSE IF CloseCards(name) = {}
                            THEN MetwLinks(e) = {}
                            ELSE MetwLinks(e) =
                                    {CardUri(metw.cards[Least(TopCards(name))], name)}

\* No card has the entity's normalized name, two cards score 22/24 and one
\* scores less than 0.9: the fuzzy search ran and the entity is linked to
\* the first of the two.
C24_Witness ==
    /\ metw.pc = "done"
    /\ metw.cards = << [name |-> "Gandalf", id |-> "tw-6"],
                       [name |-> "Gandalf Gray", id |-> "tw-4"],
                       [name |-> "Gandolf Grey", id |-> ""] >>
    /\ "e1" \in metw.scanned
    /\ MetwLinks("e1") = {"http://tolkien-kg.org/metw/card/tw-4"}

(***************************************************************************)
(* The multilingual pass, checked under SpecMl.                            *)
(***************************************************************************)
\* The requested languages in which the entity had no label before the pass.
MissingLanguages(e) ==
    {MlLanguages[k] : k \in {j \in DOMAIN MlLanguages :
                                ~\E lbl \in Objects(multilingual.before, e, "label") :
                                     lbl[2] = MlLanguages[j]}}

\* The pairs (entity, language) the pass has looked up.
LookedUp ==
    {<<multilingual.lookups[k].entity, multilingual.lookups[k].lang>> :
        k \in DOMAIN multilingual.lookups}

\* At most max_entities entities are selected; a lookup is made only for a
\* selected entity and a requested language in which it had no label, once
\* per pair; at the end every such pair was looked up, whatever the
\* lookups before it came to.
LookupsWhereMissing ==
    LET ml == multilingual
    IN  /\ Len(ml.entities) <= ml.max_entities
        /\ Len(ml.lookups) = Cardinality(LookedUp)
        /\ \A pair \in LookedUp :
              /\ \E i \in DOMAIN ml.entities : ml.entities[i] = pair[1]
              /\ pair[2] \in MissingLanguages(pair[1])
        /\ (ml.pc = "done") =>
              \A i \in DOMAIN ml.entities :
                  \A lang \in MissingLanguages(ml.entities[i]) :
                      <<ml.entities[i], lang>> \in LookedUp

\* C25: the pass selects only entities that lack a label in at least one
\* requested language, at most max_entities of them; it looks up only the
\* requested languages in which a selected entity has no label; a failed
\* lookup for one pair does not keep the remaining pairs from being
\* processed.
C25_SelectsOnlyLacking ==
    /\ \A i \in DOMAIN multilingual.entities :
          MissingLanguages(multilingual.entities[i]) # {}
    /\ LookupsWhereMissing

\* The same apart from the selection.
C25_LookupsOnlyWhereMissing == LookupsWhereMissing

(***************************************************************************)
(* The image field, checked under SpecImage.                               *)
(***************************************************************************)
\* The image statements the call has added.
ImageStatements == {t \in image.graph : t[2] = "image"}

\* The lookup came back with the file's url.
LookupGaveUrl ==
    wiki_request.pc = "returned" /\ wiki_request.result = "data" /\ image.body = "url"

\* The name of the file the field names.
ImageFileName == StripFilePrefix(image.field, FilePrefixes)

\* C26: processing an image field never raises; when the lookup returns a
\* direct url, that url is the image statement; when the lookup fails or
\* returns nothing, the image statement is the url of the file's
\* description page, https://tolkiengateway.net/wiki/File:<name>; the
\* entity gains at most one image statement per call.
C26_FallsBackToFilePage ==
    /\ image.pc # "raised"
    /\ Cardinality(ImageStatements) <= 1
    /\ (image.pc = "done" /\ image.field # "") =>
          IF LookupGaveUrl
          THEN ImageStatements = {<<"entity", "image", ReportedUrl(ImageFileName)>>}
          ELSE ImageStatements =
                  {<<"entity", "image",
                     "https://tolkiengateway.net/wiki/File:" \o Quote(ImageFileName, "/")>>}

\* What holds instead: never more than one statement, the reported url when
\* there is one, the description page only when the wiki lists the file
\* without a url, and the url built from the hash of the name in every
\* other case.
C26_OneImageStatement ==
    /\ image.pc # "raised"
    /\ Cardinality(ImageStatements) <= 1
    /\ (image.pc = "done" /\ image.field # "") =>
          ImageStatements =
             {<<"entity", "image",
                IF LookupGaveUrl THEN ReportedUrl(ImageFileName)
                ELSE IF wiki_request.result = "data" /\ image.body = "no_url"
                THEN "https://tolkiengateway.net/wiki/File:" \o Quote(ImageFileName, "/")
                ELSE HashedUrl(ImageFileName)>>}

\* The date statements a finished process() call added, and the deny-list
\* of is_valid_date applied to a cleaned value.
DateStatementsAdded == IF dated.pc = "done" THEN dated.graph ELSE {}
Denied(cleaned) ==
    LET t == Strip(Lower(cleaned))
    IN  \/ \A i \in 1..Len(t) : SubSeq(t, i, i) \in {",", ".", " "}
        \/ t \in {"c.", "around", "unknown"}
        \/ \E k \in 0..Len(t) : Len(t) = k + 7 /\ SubSeq(t, 1, 4) = "late" /\ SubSeq(t, k + 5, k + 7) = "age"
        \/ \E k \in 0..Len(t) : Len(t) = k + 8 /\ SubSeq(t, 1, 5) = "early" /\ SubSeq(t, k + 6, k + 8) = "age"

\* C27: for every date-like field of every entity type, a date statement is
\* produced only if the cleaned value does not match the deny-list of
\* non-date phrases; a field whose value is "unknown" yields no date statement.
C27_DateOnlyIfNotDenied ==
    \A st \in DateStatementsAdded : ~Denied(st[3])

\* C27, the part the code keeps: the birth and death statements of the
\* character routine never carry a denied value.
C27_CharacterDatesNotDenied ==
    \A st \in DateStatementsAdded :
        st[2] \in {"birthDate", "deathDate"} => ~Denied(st[3])

\* The lower-cased template name of the process() call, the positions of the
\* keywords it contains, and the type its first keyword stands for.
DetectedName == Lower(Strip(dated.template))
KeywordsFound == {i \in 1..Len(TypeKeywords) : Contains(DetectedName, TypeKeywords[i])}
KeywordType ==
    LET first == CHOOSE i \in KeywordsFound : \A j \in KeywordsFound : i <= j
    IN  IF TypeKeywords[first] = "conflict" THEN "war" ELSE TypeKeywords[first]
TypeByName ==
    /\ DetectedName = "campaign" => dated.itype = "war"
    /\ DetectedName = "battle" => dated.itype = "battle"
    /\ DetectedName \notin {"campaign", "battle"} =>
          IF KeywordsFound = {} THEN dated.itype = "unknown" ELSE dated.itype = KeywordType
    /\ dated.itype = "unknown" => dated.routine = "process_character"

\* C28: detect_type returns only one of character, place, location, object,
\* weapon, artifact, book, event, battle, war, unknown: a template named
\* exactly "campaign" gives war and exactly "battle" gives battle; otherwise
\* the result is the first keyword of the list found in the lower-cased
\* template name, with "conflict" giving war; a name containing no keyword
\* gives unknown, which process dispatches to the character routine.
C28_DetectedType ==
    dated.pc = "done" =>
        /\ dated.itype \in { "character", "place", "location", "object", "weapon", "artifact",
                            "book", "event", "battle", "war", "unknown" }
        /\ TypeByName

\* C28 as stated: the result is one of character, place, object, event,
\* battle, war, unknown only.
C28_SevenTypesOnly ==
    dated.pc = "done" =>
        /\ dated.itype \in {"character", "place", "object", "event", "battle", "war", "unknown"}
        /\ TypeByName

\* C28: a template whose name holds "location" has been given the type
\* location and handed to the place routine.
C28_Witness ==
    /\ dated.pc = "done"
    /\ dated.template = "Location infobox"
    /\ dated.itype = "location"
    /\ dated.routine = "process_place"

(***************************************************************************)
(* The statistics of a stopped build, checked under Spec.                  *)
(***************************************************************************)
\* C29: whenever a build stops, whether it ran to the end or was halted by
\* cancellation at any point, the statistics are consistent:
\* stats['processed'] = stats['success'] + stats['no_infobox'] + stats['errors'].
C29_StatsConsistent ==
    \A s \in Sessions :
        thread[s].pc = "done"
        => builder[s].stats.processed = Outcomes(builder[s])

\* C29, the part the code keeps: a build that was not cancelled stops with
\* consistent statistics, and a cancelled one with at most one page counted
\* as processed without an outcome.
C29_ConsistentUnlessCancelled ==
    \A s \in Sessions :
        thread[s].pc = "done"
        => /\ builder[s].stats.processed \in {Outcomes(builder[s]), Outcomes(builder[s]) + 1}
           /\ thread[s].final # "cancelled"
                 => builder[s].stats.processed = Outcomes(builder[s])

(***************************************************************************)
(* The processed-page set of one build, checked under Spec.                *)
(***************************************************************************)
\* The titles that join the processed set when session s records the outcome
\* of the page it fetched: the title, for a success or a page without
\* template; none otherwise.
JoinsProcessed(s) ==
    IF thread[s].wikitext \in {"infobox", "no_template"} THEN {thread[s].title} ELSE {}

\* C30: after any sequence of page outcomes in one build, the processed-page
\* set contains exactly the titles whose outcome was success or no-template,
\* so its size equals stats['success'] + stats['no_infobox']; no title is
\* ever removed from it and no title is counted as success or no-template
\* more than once.
C30_ProcessedSetExact ==
    [][\A s \in Sessions :
          /\ RecordsPage(s)
             => /\ builder'[s].processed_pages =
                      builder[s].processed_pages \cup JoinsProcessed(s)
                /\ JoinsProcessed(s) \cap builder[s].processed_pages = {}
                /\ builder'[s].stats.success + builder'[s].stats.no_infobox =
                      builder[s].stats.success + builder[s].stats.no_infobox
                         + Cardinality(JoinsProcessed(s))
          /\ ~RecordsPage(s)
             => /\ builder'[s].processed_pages = builder[s].processed_pages
                /\ builder'[s].stats.success = builder[s].stats.success
                /\ builder'[s].stats.no_infobox = builder[s].stats.no_infobox
          /\ builder[s].processed_pages \subseteq builder'[s].processed_pages
          /\ Cardinality(builder'[s].processed_pages) =
                builder'[s].stats.success + builder'[s].stats.no_infobox
          /\ \A title \in Titles :
                (title \in builder'[s].processed_pages)
                <=> (Succeeded(s, title)' \/ HadNoTemplate(s, title)')]_vars

\* C30 witness: one build had a success, a page without template, an error
\* and a skipped duplicate, and its processed set holds the two titles.
C30_Witness ==
    \E s \in Sessions :
        /\ builder[s].stats.success = 1
        /\ builder[s].stats.no_infobox = 1
        /\ builder[s].stats.errors >= 1
        /\ builder[s].stats.duplicates_skipped >= 1
        /\ builder[s].processed_pages = Titles
        /\ Succeeded(s, "t1")
        /\ ~Succeeded(s, "t2")
====
